---- MODULE Spec2Model ----
(***************************************************************************)
(* MindRegistry of mastra-minds (packages/mastra-minds/src/registry.ts,    *)
(* the multi-provider class, lines 159-355) as a state machine.            *)
(*                                                                         *)
(* One registry instance over a list of providers.  Every async method is  *)
(* cut at its awaits: the code between two awaits runs without             *)
(* preemption and is one action; a call that is suspended at an await      *)
(* occupies a slot of `tasks`.  Providers are the environment: what a      *)
(* provider's discover/loadMind/readResource/executeScript resolves to is  *)
(* drawn from small sets when the awaited promise settles.                 *)
(*                                                                         *)
(* epoch, loadMindCalled, lastInit, pcall and ret are history variables:   *)
(* they record what the callers and the providers observe (which provider  *)
(* method was called, what a call resolved to) and are never read by the   *)
(* actions' guards, except for the bounds MaxInits and MaxLoads.           *)
(***************************************************************************)
EXTENDS Integers, Sequences, FiniteSets, TLC

\* ---- bounds of the model ------------------------------------------------
NumProviders == 2     \* providers that can be handed to the constructor
MaxList == 1          \* longest list one discover() returns
MaxTasks == 2         \* calls suspended at an await at the same time
MaxInits == 2         \* init() calls per behaviour
MaxLoads == 2         \* provider.loadMind calls between two resets
MaxMinds == 2         \* longest list one discover() returns, where only discovery is explored
MaxRegistries == 2    \* initMindRegistry() calls per behaviour
MaxPath == 3          \* longest path handed to readResource or executeScript, in tokens
MaxName == 3          \* longest name drawn letter by letter for a MIND.md frontmatter

Names == {"mind-a", "mind-b"}
Paths == {"helper.ts"}
Providers == 1..NumProviders
Slots == 1..MaxTasks

\* ---- values -------------------------------------------------------------
Undefined == [tag |-> "undefined"]
NoArgs == Undefined
ArgsSet == {NoArgs, [tag |-> "array", items |-> <<"--check">>]}

\* What a provider's executeScript can resolve to: a ScriptResult, or (a
\* provider typed Promise<any>, as the MockProvider of registry.test.ts)
\* undefined.
ScriptResults == {[tag |-> "result", success |-> FALSE, exitCode |-> 1]}
ScriptOutcomes == ScriptResults \cup {Undefined}

\* What a provider's readResource can resolve to.
ResourceOutcomes == {[tag |-> "text", text |-> "guide"], Undefined}

Idle == [op |-> "idle"]
NoCall == [op |-> "none"]
NoRet == [op |-> "none"]
NoInput == [op |-> "none"]

\* The MindMetadata list a discover() of provider p resolves to: any list
\* of at most MaxList names; the description tells the entries apart
\* ("Mind B from provider 2").
NameLists == UNION {[1..l -> Names] : l \in 0..MaxList}

LongNameLists == UNION {[1..l -> Names] : l \in 0..MaxMinds}

MetadataList(p, names) ==
  [i \in 1..Len(names) |-> [name |-> names[i], description |-> <<p, i>>]]

\* The optional capability of types.ts 74-78: the odd providers define
\* executeScript (as FileSystemProvider does), the even ones do not.
HasExecuteScript(p) == p % 2 = 1

\* The constructor's `providers` option: the first n providers, n >= 0.
ProviderLists == {[i \in 1..n |-> i] : n \in 0..NumProviders}

\* filesystem.ts 32-34, 55: the directories under baseDir; a mind is looked
\* for at {baseDir}/{name}, so the directories carry the names.
Dirs == Names

\* What {baseDir}/{dir}/MIND.md can be: no such file, a file whose text()
\* rejects, a document parseMindMd throws on (parser.ts 13-15, 87), or a
\* valid document with its frontmatter name and its body.
NoFile == [kind |-> "absent"]
Bodies == {"old", "new"}
Files ==
  {NoFile, [kind |-> "unreadable"], [kind |-> "invalid"]}
    \cup {[kind |-> "valid", name |-> n, body |-> b] : n \in Names, b \in Bodies}

\* filesystem.ts 24-26: the baseDir a FileSystemProvider is constructed
\* with, as path tokens: an absolute directory, or one relative to the
\* working directory of the program (README.md 23: './minds').
BaseDirs == {<<"/", "minds">>, <<".", "/", "minds">>}

\* The tokens the paths handed to readResource and executeScript are made
\* of; "." is the only token that holds a dot.
PathTokens == {".", "/", "sh", "SH", "md"}
\* filesystem.test.ts 219: "../../../etc/passwd"
TraversalExample ==
  <<".", ".", "/", ".", ".", "/", ".", ".", "/", "etc", "/", "passwd">>
InputPaths == UNION {[1..l -> PathTokens] : l \in 0..MaxPath} \cup {TraversalExample}

\* The paths the calls are explored with: a bare name, name.extension,
\* and the traversal of the tests.
CallPaths ==
  {<<n>> : n \in PathTokens \ {".", "/"}}
    \cup {<<"md", ".", e>> : e \in PathTokens \ {".", "/"}}
    \cup {TraversalExample}

\* No provider: what mindProviderMap.get answers for an absent key.
NoProvider == 0

\* registry.ts 331: let registryInstance: MindRegistry | null = null
NoInstance == 0

\* registry.ts 170-173: the options initMindRegistry is called with; the
\* global accessor is explored over registries of at most one provider.
GlobalOptions ==
  {[providers |-> q, conflictStrategy |-> c] :
     q \in {x \in ProviderLists : Len(x) <= 1}, c \in {"omitted", "last"}}

VARIABLES
  providers,        \* this.providers
  strategy,         \* this.strategy
  callers,          \* how the registry is used: "sequential" or "overlapping" calls
  metadataCache,    \* this.metadataCache, a Map in insertion order
  mindCache,        \* this.mindCache
  mindProviderMap,  \* this.mindProviderMap
  tasks,            \* the calls suspended at an await
  epoch,            \* history: number of init() calls started
  loadMindCalled,   \* history: provider.loadMind calls per name since the last reset
  lastInit,         \* history: the latest init() call, its state and the names each discover() listed
  pcall,            \* history: the provider call issued by the last step
  ret,              \* history: the registry call that settled in the last step
  registryInstance, \* the module's registryInstance
  instances,        \* the MindRegistry objects initMindRegistry made, by identity
  created,          \* history: number of initMindRegistry() calls started
  disk,             \* {baseDir}/{dir}/MIND.md of a FileSystemProvider, by dir
  mindDirs,         \* the FileSystemProvider's mindDirs, as the directory's name under baseDir
  baseDir,          \* the FileSystemProvider's baseDir
  input             \* the argument a pure function of the package is applied to

vars == <<providers, strategy, callers, metadataCache, mindCache,
          mindProviderMap, tasks, epoch, loadMindCalled, lastInit, pcall, ret,
          registryInstance, instances, created, disk, mindDirs, baseDir,
          input>>

\* What the constructors and the callers fix.
config == <<providers, strategy, callers, baseDir, input>>
indices == <<metadataCache, mindCache, mindProviderMap>>
globals == <<registryInstance, instances, created>>
filesystem == <<disk, mindDirs>>

\* The constructor's conflictStrategy option.
ConflictStrategyOptions == {"omitted", "first", "last"}

\* registry.ts 189: this.strategy = options.conflictStrategy ?? "first"
StrategyOf(option) == IF option = "omitted" THEN "first" ELSE option

\* ---- JS Map helpers -----------------------------------------------------
EmptyMap == [k \in {} |-> Undefined]

MapSet(m, k, v) == [x \in DOMAIN m \cup {k} |-> IF x = k THEN v ELSE m[x]]

\* metadataCache keeps insertion order (listMinds, generateAvailableMinds
\* iterate it): a sequence of MindMetadata, keyed by its name.  Map.set on
\* a present key replaces the value in place.
MetaKeys(m) == {m[i].name : i \in 1..Len(m)}

MetaGet(m, k) ==
  IF k \in MetaKeys(m)
  THEN m[CHOOSE i \in 1..Len(m) : m[i].name = k]
  ELSE Undefined

\* A map whose set() moves an overwritten key to the end (delete, then set).
MetaSetMovesToEnd(m, v) ==
  Append(SelectSeq(m, LAMBDA e : e.name # v.name), v)

MetaSet(m, v) ==
  IF v.name \in MetaKeys(m)
  THEN [i \in 1..Len(m) |-> IF m[i].name = v.name THEN v ELSE m[i]]
  ELSE Append(m, v)

\* ---- init(): the merge of one provider's discover() result --------------
\* registry.ts 207-213: an already registered name is skipped under `first`.
KeepsExistingAlways(strat) == TRUE

KeepsExistingNever(strat) == FALSE

KeepsExisting(strat) == strat = "first"

\* registry.ts 219-220
RegisterOwnerOnly(idx, provider, mind) ==
  [mindProviderMap |-> MapSet(idx.mindProviderMap, mind.name, provider),
   metadataCache |-> idx.metadataCache]

RegisterMind(idx, provider, mind) ==
  [mindProviderMap |-> MapSet(idx.mindProviderMap, mind.name, provider),
   metadataCache |-> MetaSet(idx.metadataCache, mind)]

\* registry.ts 204-221: the inner for loop over `minds`
RECURSIVE MergeMinds(_, _, _, _)
MergeMinds(idx, provider, minds, strat) ==
  IF minds = <<>>
  THEN idx
  ELSE LET mind == Head(minds)
           existing == mind.name \in DOMAIN idx.mindProviderMap
       IN IF existing /\ KeepsExisting(strat)
          THEN MergeMinds(idx, provider, Tail(minds), strat)
          ELSE MergeMinds(RegisterMind(idx, provider, mind), provider,
                          Tail(minds), strat)

\* registry.ts 195-223 on a new registry: what one init() call makes of
\* the lists `seen` that the first k providers' discover() resolved to.
RECURSIVE InitOnce(_, _)
InitOnce(k, seen) ==
  IF k = 0
  THEN [mindProviderMap |-> EmptyMap, metadataCache |-> <<>>]
  ELSE MergeMinds(InitOnce(k - 1, seen), providers[k], seen[k], strategy)

NoneInFlight == \A s \in Slots : tasks[s] = Idle

\* A call can begin in slot s: s is the lowest free slot, and under
\* sequential use (registry.ts is written for it: no lock, no single
\* flight) no other call is in flight.
\* A registry that serialises its calls behind a lock.
MayBeginAlone(s) ==
  /\ tasks[s] = Idle
  /\ \A t \in Slots : t < s => tasks[t] # Idle
  /\ NoneInFlight

MayBegin(s) ==
  /\ tasks[s] = Idle
  /\ \A t \in Slots : t < s => tasks[t] # Idle
  /\ callers = "sequential" => NoneInFlight

\* registry.ts 181-190: the fields of a new MindRegistry
Constructed ==
  /\ providers \in ProviderLists
  /\ strategy \in {StrategyOf(option) : option \in ConflictStrategyOptions}
  /\ metadataCache = <<>>
  /\ mindCache = EmptyMap
  /\ mindProviderMap = EmptyMap
  /\ tasks = [s \in Slots |-> Idle]
  /\ epoch = 0
  /\ loadMindCalled = [n \in Names |-> 0]
  /\ lastInit = [status |-> "none", declared |-> <<>>]
  /\ pcall = NoCall
  /\ ret = NoRet

\* registry.ts 331: the module before any initMindRegistry() call
ModuleLoaded ==
  /\ registryInstance = NoInstance
  /\ instances = EmptyMap
  /\ created = 0

\* filesystem.ts 22: a new FileSystemProvider has an empty mindDirs
ProviderConstructed == mindDirs = EmptyMap

\* The registries of these behaviours run over providers that are given by
\* what they answer, so no directory is involved.
NoFileSystem ==
  /\ disk = [d \in Dirs |-> NoFile]
  /\ baseDir = <<>>
  /\ ProviderConstructed
  /\ input = NoInput

Init ==
  /\ callers = "sequential"
  /\ Constructed
  /\ ModuleLoaded
  /\ NoFileSystem

\* A registry whose one init() call has returned, and whose callers do
\* not wait for one call to settle before they make the next.
Initialized ==
  /\ callers = "overlapping"
  /\ providers \in ProviderLists
  /\ strategy \in {StrategyOf(option) : option \in ConflictStrategyOptions}
  /\ \E lists \in [1..Len(providers) -> NameLists] :
       LET seen == [k \in 1..Len(providers) |->
                      MetadataList(providers[k], lists[k])]
           once == InitOnce(Len(providers), seen)
       IN /\ metadataCache = once.metadataCache
          /\ mindProviderMap = once.mindProviderMap
          /\ lastInit = [status |-> "resolved",
                         declared |-> [k \in 1..Len(providers) |->
                                         MetaKeys(seen[k])]]
          /\ ret = [op |-> "init", status |-> "resolved",
                    before |-> [cached |-> {}, known |-> {}], seen |-> seen]
  /\ mindCache = EmptyMap
  /\ tasks = [s \in Slots |-> Idle]
  /\ epoch = 1
  /\ loadMindCalled = [n \in Names |-> 0]
  /\ pcall = NoCall
  /\ ModuleLoaded
  /\ NoFileSystem

\* What init() leaves of the content cache when it starts (registry.ts 197).
KeptMindCache(cache) == cache

ClearedMindCache(cache) == EmptyMap

\* What init() leaves of the ownership map when it starts (registry.ts 198).
KeptOwners(owners) == owners

ClearedOwners(owners) == EmptyMap

\* registry.ts 195-202: the three clear() calls, then the first discover()
\* is called and awaited; with no provider the loop body never runs and
\* init() resolves.
InitStart(s) ==
  /\ MayBegin(s)
  /\ epoch < MaxInits
  /\ epoch' = epoch + 1
  /\ metadataCache' = <<>>
  /\ mindCache' = ClearedMindCache(mindCache)
  /\ mindProviderMap' = ClearedOwners(mindProviderMap)
  /\ loadMindCalled' = [n \in Names |-> 0]
  /\ LET before == [cached |-> DOMAIN mindCache,
                    known |-> DOMAIN mindProviderMap]
     IN IF providers = <<>>
        THEN /\ tasks' = tasks
             /\ pcall' = NoCall
             /\ lastInit' = [status |-> "resolved", declared |-> <<>>]
             /\ ret' = [op |-> "init", status |-> "resolved",
                        before |-> before, seen |-> <<>>]
        ELSE /\ tasks' = [tasks EXCEPT ![s] =
                            [op |-> "init", k |-> 1, before |-> before,
                             seen |-> <<>>]]
             /\ pcall' = [op |-> "discover", provider |-> providers[1]]
             /\ lastInit' = [status |-> "running", declared |-> <<>>]
             /\ ret' = NoRet
  /\ UNCHANGED <<config, globals, filesystem>>

\* registry.ts 202-222: discover() of provider k resolved with the
\* metadata of `names`; the list is merged, then the next provider's
\* discover() is called and awaited, or init() resolves.
InitDiscoverReturn(s, names) ==
  /\ tasks[s].op = "init"
  /\ LET t == tasks[s]
         p == providers[t.k]
         minds == MetadataList(p, names)
         idx == MergeMinds([mindProviderMap |-> mindProviderMap,
                            metadataCache |-> metadataCache],
                           p, minds, strategy)
         seen == Append(t.seen, minds)
         declared == Append(lastInit.declared, MetaKeys(minds))
     IN /\ mindProviderMap' = idx.mindProviderMap
        /\ metadataCache' = idx.metadataCache
        /\ IF t.k < Len(providers)
           THEN /\ tasks' = [tasks EXCEPT ![s] =
                               [t EXCEPT !.k = t.k + 1, !.seen = seen]]
                /\ pcall' = [op |-> "discover", provider |-> providers[t.k + 1]]
                /\ lastInit' = [status |-> "running", declared |-> declared]
                /\ ret' = NoRet
           ELSE /\ tasks' = [tasks EXCEPT ![s] = Idle]
                /\ pcall' = NoCall
                /\ lastInit' = [status |-> "resolved", declared |-> declared]
                /\ ret' = [op |-> "init", status |-> "resolved",
                           before |-> t.before, seen |-> seen]
  /\ UNCHANGED <<config, globals, filesystem, mindCache, epoch, loadMindCalled>>

\* What init() makes of a discover() that rejects: nothing catches it
\* (registry.ts 202), so init() rejects with the provider's error.
DiscoverErrorSwallowed(p) == [status |-> "resolved", error |-> Undefined]

DiscoverError(p) == [status |-> "rejected", error |-> [from |-> p]]

\* registry.ts 202: discover() of provider k rejected; the two maps keep
\* what the providers before k put there.
InitDiscoverThrow(s) ==
  /\ tasks[s].op = "init"
  /\ LET t == tasks[s]
         e == DiscoverError(providers[t.k])
     IN /\ tasks' = [tasks EXCEPT ![s] = Idle]
        /\ pcall' = NoCall
        /\ lastInit' = [lastInit EXCEPT !.status = e.status]
        /\ ret' = [op |-> "init", status |-> e.status, before |-> t.before,
                   seen |-> t.seen, error |-> e.error, failedAt |-> t.k]
  /\ UNCHANGED <<config, globals, filesystem, indices, epoch, loadMindCalled>>

\* ---- the owner lookup of loadMind, readResource, executeScript ----------
\* The single-provider class (registry.ts 45-92) asked its one provider
\* for every name.
FirstProvider(name) ==
  IF providers = <<>> THEN NoProvider ELSE providers[1]

\* A lookup that probes the first provider for a name without owner.
OwnerOrFirst(name) ==
  IF name \in DOMAIN mindProviderMap THEN mindProviderMap[name]
  ELSE IF providers = <<>> THEN NoProvider ELSE providers[1]

\* registry.ts 254, 280, 292: this.mindProviderMap.get(name)
Owner(name) ==
  IF name \in DOMAIN mindProviderMap THEN mindProviderMap[name] ELSE NoProvider

\* ---- loadMind --------------------------------------------------------------
\* The provider.loadMind calls made for the names of S since the last reset.
RECURSIVE LoadsMade(_)
LoadsMade(S) ==
  IF S = {} THEN 0
  ELSE LET n == CHOOSE x \in S : TRUE
       IN loadMindCalled[n] + LoadsMade(S \ {n})

\* registry.ts 250: the cache check
CacheNeverHits(cache, name) == FALSE

CacheHit(cache, name) == name \in DOMAIN cache

CachesAnyResult(mind) == TRUE

\* registry.ts 260: only a defined result is cached
CachesResult(mind) == mind # Undefined

\* registry.ts 249-259: cache check, owner lookup, then the owner's
\* loadMind is called and awaited.
LoadMindStart(s, name) ==
  /\ MayBegin(s)
  /\ IF CacheHit(mindCache, name)
     THEN /\ ret' = [op |-> "loadMind", name |-> name, status |-> "resolved",
                     value |-> mindCache[name], asked |-> FALSE]
          /\ pcall' = NoCall
          /\ UNCHANGED <<tasks, loadMindCalled>>
     ELSE IF Owner(name) = NoProvider
     THEN /\ ret' = [op |-> "loadMind", name |-> name, status |-> "resolved",
                     value |-> Undefined, asked |-> FALSE]
          /\ pcall' = NoCall
          /\ UNCHANGED <<tasks, loadMindCalled>>
     ELSE /\ LoadsMade(Names) < MaxLoads
          /\ loadMindCalled' = [loadMindCalled EXCEPT ![name] = @ + 1]
          /\ tasks' = [tasks EXCEPT ![s] =
                         [op |-> "loadMind", name |-> name, epoch |-> epoch,
                          serial |-> loadMindCalled[name] + 1]]
          /\ pcall' = [op |-> "loadMind", provider |-> Owner(name),
                       name |-> name]
          /\ ret' = NoRet
  /\ UNCHANGED <<config, globals, filesystem, indices, epoch, lastInit>>

\* registry.ts 259-263: the owner's loadMind resolved, with a Mind (a new
\* object, told apart by the epoch and the serial of the provider call
\* that made it) or with undefined.
LoadMindReturn(s, found) ==
  /\ tasks[s].op = "loadMind"
  /\ LET t == tasks[s]
         mind == IF found
                 THEN [tag |-> "mind", name |-> t.name, epoch |-> t.epoch,
                       serial |-> t.serial]
                 ELSE Undefined
     IN /\ mindCache' = IF CachesResult(mind)
                        THEN MapSet(mindCache, t.name, mind)
                        ELSE mindCache
        /\ ret' = [op |-> "loadMind", name |-> t.name, status |-> "resolved",
                   value |-> mind, asked |-> TRUE]
  /\ tasks' = [tasks EXCEPT ![s] = Idle]
  /\ pcall' = NoCall
  /\ UNCHANGED <<config, globals, filesystem, metadataCache, mindProviderMap, epoch,
                 loadMindCalled, lastInit>>

\* ---- readResource ------------------------------------------------------
\* registry.ts 280-281: provider?.readResource(mindName, path)
ReadResourceStart(s, mindName, path) ==
  /\ MayBegin(s)
  /\ IF Owner(mindName) = NoProvider
     THEN /\ ret' = [op |-> "readResource", name |-> mindName,
                     status |-> "resolved", value |-> Undefined,
                     asked |-> FALSE]
          /\ pcall' = NoCall
          /\ tasks' = tasks
     ELSE /\ tasks' = [tasks EXCEPT ![s] =
                         [op |-> "readResource", name |-> mindName,
                          path |-> path]]
          /\ pcall' = [op |-> "readResource", provider |-> Owner(mindName),
                       name |-> mindName, path |-> path]
          /\ ret' = NoRet
  /\ UNCHANGED <<config, globals, filesystem, indices, epoch, loadMindCalled, lastInit>>

\* registry.ts 281: the owner's readResource resolved.
ReadResourceReturn(s, out) ==
  /\ tasks[s].op = "readResource"
  /\ ret' = [op |-> "readResource", name |-> tasks[s].name,
             status |-> "resolved", value |-> out, asked |-> TRUE]
  /\ tasks' = [tasks EXCEPT ![s] = Idle]
  /\ pcall' = NoCall
  /\ UNCHANGED <<config, globals, filesystem, indices, epoch, loadMindCalled, lastInit>>

\* ---- executeScript / supportsScripts -----------------------------------
\* A supportsScripts that only asks whether the mind has an owner.
SupportsScriptsIfOwned(mindName) == mindName \in DOMAIN mindProviderMap

\* registry.ts 302-305: typeof provider?.executeScript === "function"
supportsScripts(mindName) ==
  /\ mindName \in DOMAIN mindProviderMap
  /\ HasExecuteScript(mindProviderMap[mindName])

\* registry.ts 296: the arguments handed to the owner's executeScript
ArgsPassed(mindName, scriptPath, args) ==
  [name |-> mindName, path |-> scriptPath, args |-> args]

\* registry.ts 292-296: !provider?.executeScript answers undefined, else
\* the owner's executeScript is called and its promise returned.
ExecuteScriptStart(s, mindName, scriptPath, args) ==
  /\ MayBegin(s)
  /\ IF ~(Owner(mindName) # NoProvider /\ HasExecuteScript(Owner(mindName)))
     THEN /\ ret' = [op |-> "executeScript", name |-> mindName,
                     status |-> "resolved", value |-> Undefined,
                     asked |-> FALSE]
          /\ pcall' = NoCall
          /\ tasks' = tasks
     ELSE /\ tasks' = [tasks EXCEPT ![s] =
                         [op |-> "executeScript", name |-> mindName,
                          path |-> scriptPath, args |-> args]]
          /\ LET a == ArgsPassed(mindName, scriptPath, args)
             IN pcall' = [op |-> "executeScript",
                          provider |-> Owner(mindName), name |-> a.name,
                          path |-> a.path, args |-> a.args]
          /\ ret' = NoRet
  /\ UNCHANGED <<config, globals, filesystem, indices, epoch, loadMindCalled, lastInit>>

\* registry.ts 296: the owner's executeScript resolved with `out`, which
\* is what the registry's promise resolves to.
ExecuteScriptReturn(s, out) ==
  /\ tasks[s].op = "executeScript"
  /\ ret' = [op |-> "executeScript", name |-> tasks[s].name,
             status |-> "resolved", value |-> out, asked |-> TRUE,
             provided |-> out]
  /\ tasks' = [tasks EXCEPT ![s] = Idle]
  /\ pcall' = NoCall
  /\ UNCHANGED <<config, globals, filesystem, indices, epoch, loadMindCalled, lastInit>>

\* ---- the synchronous lookups -------------------------------------------
\* registry.ts 269-271
hasMind(name) == name \in DOMAIN mindProviderMap

\* registry.ts 242-244
getMetadata(name) == MetaGet(metadataCache, name)

\* registry.ts 228-230
getProviderForMind(name) ==
  IF name \in DOMAIN mindProviderMap
  THEN [tag |-> "provider", id |-> mindProviderMap[name]]
  ELSE Undefined

\* registry.ts 325-327
listMinds == [i \in 1..Len(metadataCache) |-> metadataCache[i].name]

\* registry.ts 310-320: the sentinel, or the header and one bullet line
\* per metadata entry
\* A generateAvailableMinds without the empty case: the header, always.
GenerateHeaderAlways ==
  [text |-> "Available minds:",
   lines |-> [i \in 1..Len(metadataCache) |->
                [bullet |-> "- ", name |-> metadataCache[i].name,
                 description |-> metadataCache[i].description]]]

generateAvailableMinds ==
  IF Len(metadataCache) = 0
  THEN [text |-> "No minds installed.", lines |-> <<>>]
  ELSE [text |-> "Available minds:",
        lines |-> [i \in 1..Len(metadataCache) |->
                     [bullet |-> "- ", name |-> metadataCache[i].name,
                      description |-> metadataCache[i].description]]]

\* A hasMind that falls back to asking the provider for an unknown name,
\* as the single-provider class did (registry.ts 60-65).
LookupAsksProvider(op, name) ==
  IF op = "hasMind" /\ name \notin DOMAIN mindProviderMap /\ providers # <<>>
  THEN [op |-> "hasMind", provider |-> providers[1], name |-> name]
  ELSE NoCall

\* The provider call a lookup makes: none (registry.ts 228-244, 269-271,
\* 302-327 read the maps only).
LookupCall(op, name) == NoCall

\* What a lookup is to its caller: it returns `value`, after the provider
\* call LookupCall names, and changes nothing.
Lookup(op, name, value) ==
  /\ ret' = [op |-> op, name |-> name, status |-> "returned", value |-> value]
  /\ pcall' = LookupCall(op, name)
  /\ UNCHANGED <<config, globals, filesystem, indices, tasks, epoch, loadMindCalled, lastInit>>

MayLookup == callers = "sequential" => NoneInFlight

HasMind(name) ==
  /\ MayLookup
  /\ Lookup("hasMind", name, hasMind(name))

GetMetadata(name) ==
  /\ MayLookup
  /\ Lookup("getMetadata", name, getMetadata(name))

GetProviderForMind(name) ==
  /\ MayLookup
  /\ Lookup("getProviderForMind", name, getProviderForMind(name))

SupportsScripts(name) ==
  /\ MayLookup
  /\ Lookup("supportsScripts", name, supportsScripts(name))

ListMinds ==
  /\ MayLookup
  /\ Lookup("listMinds", "", listMinds)

GenerateAvailableMinds ==
  /\ MayLookup
  /\ Lookup("generateAvailableMinds", "", generateAvailableMinds)

\* ---- specification -----------------------------------------------------
\* A call begins (the code up to its first await), an awaited provider
\* promise settles and the call continues, or a lookup is made.
Next ==
  \/ \E s \in Slots : InitStart(s)
  \/ \E s \in Slots, names \in NameLists : InitDiscoverReturn(s, names)
  \/ \E s \in Slots : InitDiscoverThrow(s)
  \/ \E s \in Slots, name \in Names : LoadMindStart(s, name)
  \/ \E s \in Slots, found \in BOOLEAN : LoadMindReturn(s, found)
  \/ \E s \in Slots, name \in Names, path \in Paths :
       ReadResourceStart(s, name, path)
  \/ \E s \in Slots, out \in ResourceOutcomes : ReadResourceReturn(s, out)
  \/ \E s \in Slots, name \in Names, path \in Paths, args \in ArgsSet :
       ExecuteScriptStart(s, name, path, args)
  \/ \E s \in Slots, out \in ScriptOutcomes : ExecuteScriptReturn(s, out)
  \/ \E name \in Names : HasMind(name)
  \/ \E name \in Names : GetMetadata(name)
  \/ \E name \in Names : GetProviderForMind(name)
  \/ \E name \in Names : SupportsScripts(name)
  \/ ListMinds
  \/ GenerateAvailableMinds

Spec == Init /\ [][Next]_vars

\* Discovery alone: init() and the lookups, over longer discover() lists.
NextDiscovery ==
  \/ \E s \in Slots : InitStart(s)
  \/ \E s \in Slots, names \in LongNameLists : InitDiscoverReturn(s, names)
  \/ \E s \in Slots : InitDiscoverThrow(s)
  \/ \E name \in Names : HasMind(name)
  \/ \E name \in Names : GetMetadata(name)
  \/ \E name \in Names : GetProviderForMind(name)
  \/ ListMinds
  \/ GenerateAvailableMinds

SpecDiscovery == Init /\ [][NextDiscovery]_vars

\* Overlapping loadMind() calls on an initialized registry.
NextLoads ==
  \/ \E s \in Slots, name \in Names : LoadMindStart(s, name)
  \/ \E s \in Slots, found \in BOOLEAN : LoadMindReturn(s, found)

SpecLoads == Initialized /\ [][NextLoads]_vars

\* ---- the global registry (registry.ts 331-354) ---------------------------
\* registry.ts 181-190: the MindRegistry that new MindRegistry(options) makes
NewRegistry(options) ==
  [providers |-> options.providers,
   strategy |-> StrategyOf(options.conflictStrategy),
   metadataCache |-> <<>>,
   mindCache |-> EmptyMap,
   mindProviderMap |-> EmptyMap]

\* registry.ts 196-198: init() clears the three maps of its registry
InstanceCleared(r) ==
  [r EXCEPT !.metadataCache = <<>>,
            !.mindCache = ClearedMindCache(r.mindCache),
            !.mindProviderMap = ClearedOwners(r.mindProviderMap)]

\* registry.ts 200-222: init() merges what one provider discovered
InstanceMerged(r, p, minds) ==
  LET idx == MergeMinds([mindProviderMap |-> r.mindProviderMap,
                         metadataCache |-> r.metadataCache],
                        p, minds, r.strategy)
  IN [r EXCEPT !.mindProviderMap = idx.mindProviderMap,
               !.metadataCache = idx.metadataCache]

\* An initMindRegistry that re-initializes the registry already installed.
InitTargetInstalled(made, previous) ==
  IF previous = NoInstance THEN made ELSE previous

\* registry.ts 351-352: init() runs on the registry this call constructed
InitTarget(made, previous) == made

\* An accessor that hands out whatever the variable holds.
GetMindRegistryUnchecked ==
  [status |-> "returned", value |-> registryInstance]

\* registry.ts 336-343: getMindRegistry()
getMindRegistry ==
  IF registryInstance = NoInstance
  THEN [status |-> "threw",
        error |-> "MindRegistry not initialized. Call initMindRegistry first."]
  ELSE [status |-> "returned", value |-> registryInstance]

\* The registries a step can still reach: the installed one and the ones
\* an init() in flight is working on.
Reachable ==
  {i \in DOMAIN instances :
     \/ i = registryInstance
     \/ \E t \in Slots : tasks[t].op = "initMindRegistry" /\ tasks[t].target = i}

\* registry.ts 348-352, up to the first await: the new registry is
\* installed at once, then init() starts on it.
InitMindRegistryStart(s, options) ==
  /\ MayBegin(s)
  /\ created < MaxRegistries
  /\ LET made == created + 1
         previous == registryInstance
         target == InitTarget(made, previous)
         built == [i \in Reachable \cup {made} |->
                     IF i = made THEN NewRegistry(options) ELSE instances[i]]
         started == [built EXCEPT ![target] = InstanceCleared(built[target])]
         call == [op |-> "initMindRegistry", target |-> target, made |-> made,
                  previous |-> previous, k |-> 0]
     IN /\ created' = made
        /\ registryInstance' = made
        /\ instances' = started
        /\ IF started[target].providers = <<>>
           THEN /\ tasks' = [tasks EXCEPT ![s] = call]
                /\ pcall' = NoCall
           ELSE /\ tasks' = [tasks EXCEPT ![s] = [call EXCEPT !.k = 1]]
                /\ pcall' = [op |-> "discover",
                             provider |-> started[target].providers[1]]
  /\ ret' = NoRet
  /\ UNCHANGED <<config, filesystem, indices, epoch, loadMindCalled, lastInit>>

\* registry.ts 200-222 inside initMindRegistry: one discover() of the
\* registry under init() resolves.
InitMindRegistryDiscoverReturn(s, names) ==
  /\ tasks[s].op = "initMindRegistry"
  /\ tasks[s].k >= 1
  /\ LET t == tasks[s]
         r == instances[t.target]
         p == r.providers[t.k]
     IN /\ instances' = [instances EXCEPT
                           ![t.target] = InstanceMerged(r, p, MetadataList(p, names))]
        /\ IF t.k < Len(r.providers)
           THEN /\ tasks' = [tasks EXCEPT ![s] = [t EXCEPT !.k = t.k + 1]]
                /\ pcall' = [op |-> "discover", provider |-> r.providers[t.k + 1]]
           ELSE /\ tasks' = [tasks EXCEPT ![s] = [t EXCEPT !.k = 0]]
                /\ pcall' = NoCall
  /\ ret' = NoRet
  /\ UNCHANGED <<config, filesystem, indices, epoch, loadMindCalled, lastInit,
                 registryInstance, created>>

\* registry.ts 352: a discover() rejects, so init() and initMindRegistry
\* reject; the registry installed at line 351 stays installed.
InitMindRegistryDiscoverThrow(s) ==
  /\ tasks[s].op = "initMindRegistry"
  /\ tasks[s].k >= 1
  /\ LET t == tasks[s]
         p == instances[t.target].providers[t.k]
     IN /\ DiscoverError(p).status = "rejected"
        /\ ret' = [op |-> "initMindRegistry", status |-> "rejected",
                   error |-> DiscoverError(p).error,
                   made |-> t.made, previous |-> t.previous]
  /\ tasks' = [tasks EXCEPT ![s] = Idle]
  /\ pcall' = NoCall
  /\ UNCHANGED <<config, filesystem, indices, epoch, loadMindCalled, lastInit, globals>>

\* registry.ts 353: after the await, return registryInstance
InitMindRegistryReturn(s) ==
  /\ tasks[s].op = "initMindRegistry"
  /\ tasks[s].k = 0
  /\ ret' = [op |-> "initMindRegistry", status |-> "resolved",
             value |-> registryInstance,
             made |-> tasks[s].made, previous |-> tasks[s].previous]
  /\ tasks' = [tasks EXCEPT ![s] = Idle]
  /\ pcall' = NoCall
  /\ UNCHANGED <<config, filesystem, indices, epoch, loadMindCalled, lastInit, globals>>

\* registry.ts 336-343
GetMindRegistry ==
  /\ MayLookup
  /\ ret' = [op |-> "getMindRegistry", result |-> getMindRegistry,
             calls |-> created]
  /\ pcall' = NoCall
  /\ UNCHANGED <<config, filesystem, indices, tasks, epoch, loadMindCalled, lastInit, globals>>

\* registry.ts 249-264 on the installed registry: a completed
\* getMindRegistry().loadMind(name) whose provider returned the mind.
RegistryLoaded(name) ==
  /\ NoneInFlight
  /\ registryInstance # NoInstance
  /\ LET r == instances[registryInstance]
         mind == [tag |-> "mind", name |-> name, of |-> registryInstance]
     IN /\ name \in DOMAIN r.mindProviderMap
        /\ ~CacheHit(r.mindCache, name)
        /\ instances' = [instances EXCEPT
                           ![registryInstance].mindCache = MapSet(r.mindCache, name, mind)]
        /\ ret' = [op |-> "registry.loadMind", name |-> name, value |-> mind]
  /\ pcall' = NoCall
  /\ UNCHANGED <<config, filesystem, indices, tasks, epoch, loadMindCalled, lastInit,
                 registryInstance, created>>

\* The module's registryInstance and its two functions, used one call at a
\* time; no registry is constructed directly.
InitGlobal ==
  /\ callers = "sequential"
  /\ Constructed
  /\ providers = <<>>
  /\ strategy = "first"
  /\ ModuleLoaded
  /\ NoFileSystem

NextGlobal ==
  \/ \E s \in Slots, options \in GlobalOptions : InitMindRegistryStart(s, options)
  \/ \E s \in Slots, names \in NameLists : InitMindRegistryDiscoverReturn(s, names)
  \/ \E s \in Slots : InitMindRegistryDiscoverThrow(s)
  \/ \E s \in Slots : InitMindRegistryReturn(s)
  \/ GetMindRegistry
  \/ \E name \in Names : RegistryLoaded(name)

SpecGlobal == InitGlobal /\ [][NextGlobal]_vars

\* ---- FileSystemProvider (providers/filesystem.ts) ------------------------
NoDir == ""

\* Bun.file(path).exists()
FileExists(f) == f.kind # "absent"

\* parser.ts 83-97 on what file.text() resolved to: the Mind of a valid
\* document; text() rejects and parseMindMd throws on the others.
ReadAndParse(f) ==
  IF f.kind = "valid"
  THEN [ok |-> TRUE,
        mind |-> [tag |-> "mind", metadata |-> [name |-> f.name], content |-> f.body]]
  ELSE [ok |-> FALSE]

\* A discover() that indexes a candidate's directory before it has parsed.
IndexedAnyway(dirs, dir, r) ==
  IF r.ok THEN MapSet(dirs, r.mind.metadata.name, dir) ELSE MapSet(dirs, dir, dir)

\* filesystem.ts 36-45: a parsed candidate is indexed under its frontmatter
\* name; a failed one is logged and leaves the index alone.
Indexed(dirs, dir, r) ==
  IF r.ok THEN MapSet(dirs, r.mind.metadata.name, dir) ELSE dirs

\* A loadMind without its try/catch.
LoadOutcomeUncaught(r) ==
  IF r.ok THEN [status |-> "resolved", value |-> r.mind]
  ELSE [status |-> "rejected", value |-> Undefined]

\* filesystem.ts 61-68, 71-77: the try returns the Mind, the catch undefined
LoadOutcome(r) ==
  [status |-> "resolved", value |-> IF r.ok THEN r.mind ELSE Undefined]

\* A fallback load that records the name the document declares.
FallbackIndexedAsDeclared(dirs, t, r) ==
  IF t.path = "fallback" /\ r.ok
  THEN MapSet(dirs, r.mind.metadata.name, t.dir)
  ELSE dirs

\* filesystem.ts 52-53, 64: only the fallback path writes the index, after
\* the parse, under the requested name
FallbackIndexed(dirs, t, r) ==
  IF t.path = "fallback" /\ r.ok
  THEN MapSet(dirs, t.name, t.dir)
  ELSE dirs

\* A hasMind that consults the index only.
FsHasMindIndexOnly(name, exists) == name \in DOMAIN mindDirs

\* filesystem.ts 80-88
FsHasMind(name, exists) == name \in DOMAIN mindDirs \/ exists

\* The directory changes under the provider: MIND.md of dir d becomes f.
DiskChange(d, f) ==
  /\ disk[d] # f
  /\ disk' = [disk EXCEPT ![d] = f]
  /\ pcall' = NoCall
  /\ ret' = NoRet
  /\ UNCHANGED <<config, globals, indices, tasks, epoch, loadMindCalled,
                 lastInit, mindDirs>>

\* filesystem.ts 28-32: discover() up to the first candidate of the scan
FsDiscoverStart(s) ==
  /\ MayBegin(s)
  /\ tasks' = [tasks EXCEPT ![s] = [op |-> "fs.discover", visited |-> {},
                                    current |-> NoDir, minds |-> <<>>]]
  /\ pcall' = NoCall
  /\ ret' = NoRet
  /\ UNCHANGED <<config, globals, filesystem, indices, epoch, loadMindCalled,
                 lastInit>>

\* filesystem.ts 32-38: the scan yields the next */MIND.md and its text is
\* asked for.
FsDiscoverScan(s, d) ==
  /\ tasks[s].op = "fs.discover"
  /\ tasks[s].current = NoDir
  /\ d \notin tasks[s].visited
  /\ FileExists(disk[d])
  /\ tasks' = [tasks EXCEPT ![s].current = d, ![s].visited = @ \cup {d}]
  /\ pcall' = NoCall
  /\ ret' = NoRet
  /\ UNCHANGED <<config, globals, filesystem, indices, epoch, loadMindCalled,
                 lastInit>>

\* filesystem.ts 38-45: the text arrives or the read fails; parse, index and
\* push, or log and go on.
FsDiscoverRead(s) ==
  /\ tasks[s].op = "fs.discover"
  /\ tasks[s].current # NoDir
  /\ LET t == tasks[s]
         r == ReadAndParse(disk[t.current])
     IN /\ mindDirs' = Indexed(mindDirs, t.current, r)
        /\ tasks' = [tasks EXCEPT
                       ![s].current = NoDir,
                       ![s].minds = IF r.ok THEN Append(@, r.mind.metadata) ELSE @]
  /\ pcall' = NoCall
  /\ ret' = NoRet
  /\ UNCHANGED <<config, globals, indices, epoch, loadMindCalled, lastInit, disk>>

\* filesystem.ts 46-48: the scan is exhausted
FsDiscoverReturn(s) ==
  /\ tasks[s].op = "fs.discover"
  /\ tasks[s].current = NoDir
  /\ \A d \in Dirs \ tasks[s].visited : ~FileExists(disk[d])
  /\ ret' = [op |-> "fs.discover", status |-> "resolved",
             value |-> tasks[s].minds, visited |-> tasks[s].visited]
  /\ tasks' = [tasks EXCEPT ![s] = Idle]
  /\ pcall' = NoCall
  /\ UNCHANGED <<config, globals, filesystem, indices, epoch, loadMindCalled,
                 lastInit>>

\* filesystem.ts 52-57, 71-73: loadMind(name) up to its first await: the
\* text of the indexed directory's MIND.md, or exists() of the fallback.
FsLoadMindStart(s, name) ==
  /\ MayBegin(s)
  /\ tasks' = [tasks EXCEPT ![s] =
                 IF name \in DOMAIN mindDirs
                 THEN [op |-> "fs.loadMind", name |-> name, path |-> "index",
                       dir |-> mindDirs[name], awaits |-> "text", reads |-> 1,
                       probed |-> NoFile]
                 ELSE [op |-> "fs.loadMind", name |-> name, path |-> "fallback",
                       dir |-> name, awaits |-> "exists", reads |-> 0,
                       probed |-> NoFile]]
  /\ pcall' = NoCall
  /\ ret' = NoRet
  /\ UNCHANGED <<config, globals, filesystem, indices, epoch, loadMindCalled,
                 lastInit>>

\* filesystem.ts 57-62: exists() of the fallback file resolves
FsLoadMindExists(s) ==
  /\ tasks[s].op = "fs.loadMind"
  /\ tasks[s].awaits = "exists"
  /\ LET t == tasks[s]
     IN IF FileExists(disk[t.dir])
        THEN /\ tasks' = [tasks EXCEPT ![s].awaits = "text", ![s].reads = @ + 1,
                                       ![s].probed = disk[t.dir]]
             /\ ret' = NoRet
        ELSE /\ tasks' = [tasks EXCEPT ![s] = Idle]
             /\ ret' = [op |-> "fs.loadMind", name |-> t.name, path |-> t.path,
                        status |-> "resolved", value |-> Undefined,
                        reads |-> t.reads, probed |-> disk[t.dir],
                        file |-> NoFile, indexed |-> FALSE]
  /\ pcall' = NoCall
  /\ UNCHANGED <<config, globals, filesystem, indices, epoch, loadMindCalled,
                 lastInit>>

\* filesystem.ts 62-68, 73-77: the text arrives or the read fails
FsLoadMindRead(s) ==
  /\ tasks[s].op = "fs.loadMind"
  /\ tasks[s].awaits = "text"
  /\ LET t == tasks[s]
         r == ReadAndParse(disk[t.dir])
         out == LoadOutcome(r)
     IN /\ ret' = [op |-> "fs.loadMind", name |-> t.name, path |-> t.path,
                   status |-> out.status, value |-> out.value,
                   reads |-> t.reads, probed |-> t.probed,
                   file |-> disk[t.dir], indexed |-> t.name \in DOMAIN mindDirs]
        /\ mindDirs' = FallbackIndexed(mindDirs, t, r)
  /\ tasks' = [tasks EXCEPT ![s] = Idle]
  /\ pcall' = NoCall
  /\ UNCHANGED <<config, globals, indices, epoch, loadMindCalled, lastInit, disk>>

\* filesystem.ts 80-87: hasMind(name) up to its await; an indexed name is
\* answered without one.
FsHasMindStart(s, name) ==
  /\ MayBegin(s)
  /\ IF name \in DOMAIN mindDirs
     THEN /\ ret' = [op |-> "fs.hasMind", name |-> name, probed |-> FALSE,
                     value |-> FsHasMind(name, FALSE)]
          /\ UNCHANGED tasks
     ELSE /\ tasks' = [tasks EXCEPT ![s] = [op |-> "fs.hasMind", name |-> name]]
          /\ ret' = NoRet
  /\ pcall' = NoCall
  /\ UNCHANGED <<config, globals, filesystem, indices, epoch, loadMindCalled,
                 lastInit>>

\* filesystem.ts 87: exists() of the fallback file resolves
FsHasMindExists(s) ==
  /\ tasks[s].op = "fs.hasMind"
  /\ ret' = [op |-> "fs.hasMind", name |-> tasks[s].name, probed |-> TRUE,
             value |-> FsHasMind(tasks[s].name, FileExists(disk[tasks[s].name]))]
  /\ tasks' = [tasks EXCEPT ![s] = Idle]
  /\ pcall' = NoCall
  /\ UNCHANGED <<config, globals, filesystem, indices, epoch, loadMindCalled,
                 lastInit>>

\* One FileSystemProvider over a directory that other programs write to,
\* called one call at a time.
InitFS ==
  /\ callers = "sequential"
  /\ Constructed
  /\ providers = <<>>
  /\ strategy = "first"
  /\ ModuleLoaded
  /\ disk \in [Dirs -> Files]
  /\ baseDir \in BaseDirs
  /\ ProviderConstructed
  /\ input = NoInput

NextFS ==
  \/ \E d \in Dirs, f \in Files : DiskChange(d, f)
  \/ \E s \in Slots : FsDiscoverStart(s)
  \/ \E s \in Slots, d \in Dirs : FsDiscoverScan(s, d)
  \/ \E s \in Slots : FsDiscoverRead(s)
  \/ \E s \in Slots : FsDiscoverReturn(s)
  \/ \E s \in Slots, name \in Names : FsLoadMindStart(s, name)
  \/ \E s \in Slots : FsLoadMindExists(s)
  \/ \E s \in Slots : FsLoadMindRead(s)
  \/ \E s \in Slots, name \in Names : FsHasMindStart(s, name)
  \/ \E s \in Slots : FsHasMindExists(s)

SpecFS == InitFS /\ [][NextFS]_vars

\* ---- FileSystemProvider: paths (filesystem.ts 99-101, 129-134) ----------
\* filesystem.ts 34, 55: `${this.baseDir}/${dir}`
MindDir(dir) == baseDir \o <<"/", dir>>

\* String.replace of the first ".." only (a pattern without the g flag).
RECURSIVE StripFirst(_)
StripFirst(p) ==
  IF Len(p) < 2 THEN p
  ELSE IF p[1] = "." /\ p[2] = "." THEN SubSeq(p, 3, Len(p))
       ELSE <<p[1]>> \o StripFirst(Tail(p))

\* filesystem.ts 100, 130: path.replace(/\.\./g, ""): every ".." found
\* scanning from the left, none overlapping, is removed.
RECURSIVE Strip(_)
Strip(p) ==
  IF Len(p) < 2 THEN p
  ELSE IF p[1] = "." /\ p[2] = "." THEN Strip(SubSeq(p, 3, Len(p)))
       ELSE <<p[1]>> \o Strip(Tail(p))

\* filesystem.ts 101: `${mindDir}/${normalizedPath}`
ResourcePath(mindDir, path) == mindDir \o <<"/">> \o Strip(path)

\* filesystem.ts 131: `${mindDir}/scripts/${normalizedPath}`
ScriptPath(mindDir, scriptPath) == mindDir \o <<"/", "scripts", "/">> \o Strip(scriptPath)

\* String.toLowerCase on a token
Lower(t) == IF t = "SH" THEN "sh" ELSE t

\* The positions of "." in p.
Dots(p) == {i \in 1..Len(p) : p[i] = "."}

\* filesystem.ts 134: scriptPath.split(".").pop()?.toLowerCase(): what
\* follows the last ".", the whole path when it has none.
Ext(scriptPath) ==
  LET from == IF Dots(scriptPath) = {} THEN 1
              ELSE (CHOOSE i \in Dots(scriptPath) :
                      \A j \in Dots(scriptPath) : j <= i) + 1
      last == SubSeq(scriptPath, from, Len(scriptPath))
  IN [i \in 1..Len(last) |-> Lower(last[i])]

\* filesystem.ts 137-155: the interpreter of an extension
Interpreter(ext) ==
  IF ext \in {<<"ts">>, <<"js">>} THEN "bun"
  ELSE IF ext = <<"sh">> THEN "bash"
  ELSE IF ext = <<"py">> THEN "python3"
  ELSE "unsupported"

\* filesystem.ts 139, 143, 146: [interpreter, fullPath, ...(args || [])]
Command(ext, fullPath, args) ==
  [interpreter |-> Interpreter(ext), script |-> fullPath,
   args |-> IF args = NoArgs THEN <<>> ELSE args.items]

\* The two path constructions applied to one input path.
ResolveResource ==
  /\ input.op = "path"
  /\ ret' = [op |-> "resourcePath", path |-> input.path, mindDir |-> MindDir(input.dir),
             fullPath |-> ResourcePath(MindDir(input.dir), input.path)]
  /\ pcall' = NoCall
  /\ UNCHANGED <<config, globals, filesystem, indices, tasks, epoch,
                 loadMindCalled, lastInit>>

ResolveScript ==
  /\ input.op = "path"
  /\ ret' = [op |-> "scriptPath", path |-> input.path, mindDir |-> MindDir(input.dir),
             fullPath |-> ScriptPath(MindDir(input.dir), input.path)]
  /\ pcall' = NoCall
  /\ UNCHANGED <<config, globals, filesystem, indices, tasks, epoch,
                 loadMindCalled, lastInit>>

\* The path constructions of readResource and executeScript over every
\* input path, for a provider of either kind of baseDir.
InitPaths ==
  /\ callers = "sequential"
  /\ Constructed
  /\ providers = <<>>
  /\ strategy = "first"
  /\ ModuleLoaded
  /\ disk = [d \in Dirs |-> NoFile]
  /\ ProviderConstructed
  /\ baseDir \in BaseDirs
  /\ input \in {[op |-> "path", path |-> p, dir |-> d] : p \in InputPaths, d \in Dirs}

NextPaths ==
  \/ ResolveResource
  \/ ResolveScript

SpecPaths == InitPaths /\ [][NextPaths]_vars

\* ---- FileSystemProvider: readResource and executeScript -----------------
\* What file.text() of an existing file settles to.
FileTextOutcomes == {[tag |-> "text", text |-> "guide"], [tag |-> "rejects"]}

\* process.env of the program; it may hold a MIND_NAME of its own.
ProcessEnv == [v \in {"PATH", "MIND_NAME"} |-> IF v = "PATH" THEN "/bin" ELSE "inherited"]

\* What a spawned process writes and exits with, or a failure of reading
\* its output.
ProcessOutputs == {<<>>, <<" ", "ok", "\n">>}
ProcessOutcomes ==
  {[tag |-> "exited", exitCode |-> c, stdout |-> o, stderr |-> e] :
     c \in {0, 2}, o \in ProcessOutputs, e \in ProcessOutputs}
    \cup {[tag |-> "rejects"]}

Whitespace == {" ", "\t", "\n", "\r"}

\* String.trim on a sequence of tokens
RECURSIVE TrimStart(_)
TrimStart(q) ==
  IF q # <<>> /\ q[1] \in Whitespace THEN TrimStart(Tail(q)) ELSE q

RECURSIVE TrimEnd(_)
TrimEnd(q) ==
  IF q # <<>> /\ q[Len(q)] \in Whitespace
  THEN TrimEnd(SubSeq(q, 1, Len(q) - 1)) ELSE q

Trim(q) == TrimEnd(TrimStart(q))

\* filesystem.ts 103-111: `return file.text()` hands the promise back
\* without awaiting it, so the catch does not see its rejection.
ResourceRead(out) ==
  IF out.tag = "text"
  THEN [status |-> "resolved", value |-> out]
  ELSE [status |-> "rejected", value |-> Undefined]

\* filesystem.ts 90-105: readResource up to its await of exists()
FsReadResourceStart(s, mindName, path) ==
  /\ MayBegin(s)
  /\ IF mindName \notin DOMAIN mindDirs
     THEN /\ ret' = [op |-> "fs.readResource", mindName |-> mindName,
                     path |-> path, indexed |-> FALSE, exists |-> FALSE,
                     read |-> NoFile, status |-> "resolved", value |-> Undefined]
          /\ pcall' = NoCall
          /\ UNCHANGED tasks
     ELSE LET fullPath == ResourcePath(MindDir(mindDirs[mindName]), path)
          IN /\ tasks' = [tasks EXCEPT ![s] =
                            [op |-> "fs.readResource", mindName |-> mindName,
                             path |-> path, fullPath |-> fullPath,
                             awaits |-> "exists"]]
             /\ pcall' = [op |-> "exists", path |-> fullPath]
             /\ ret' = NoRet
  /\ UNCHANGED <<config, globals, filesystem, indices, epoch, loadMindCalled,
                 lastInit>>

\* filesystem.ts 105-108: exists() resolves; the text is asked for
FsReadResourceExists(s, exists) ==
  /\ tasks[s].op = "fs.readResource"
  /\ tasks[s].awaits = "exists"
  /\ LET t == tasks[s]
     IN IF exists
        THEN /\ tasks' = [tasks EXCEPT ![s].awaits = "text"]
             /\ pcall' = [op |-> "text", path |-> t.fullPath]
             /\ ret' = NoRet
        ELSE /\ tasks' = [tasks EXCEPT ![s] = Idle]
             /\ pcall' = NoCall
             /\ ret' = [op |-> "fs.readResource", mindName |-> t.mindName,
                        path |-> t.path, indexed |-> TRUE, exists |-> FALSE,
                        read |-> NoFile, status |-> "resolved", value |-> Undefined]
  /\ UNCHANGED <<config, globals, filesystem, indices, epoch, loadMindCalled,
                 lastInit>>

\* filesystem.ts 108: the promise of file.text() settles the call
FsReadResourceText(s, out) ==
  /\ tasks[s].op = "fs.readResource"
  /\ tasks[s].awaits = "text"
  /\ LET t == tasks[s]
     IN ret' = [op |-> "fs.readResource", mindName |-> t.mindName,
                path |-> t.path, indexed |-> TRUE, exists |-> TRUE,
                read |-> out, status |-> ResourceRead(out).status,
                value |-> ResourceRead(out).value]
  /\ tasks' = [tasks EXCEPT ![s] = Idle]
  /\ pcall' = NoCall
  /\ UNCHANGED <<config, globals, filesystem, indices, epoch, loadMindCalled,
                 lastInit>>

\* A ScriptResult of a call that ran no process
Failure(stderr) ==
  [tag |-> "result", success |-> FALSE, stdout |-> <<>>, stderr |-> stderr,
   exitCode |-> 1]

\* An executeScript that answers undefined for a mind it does not know.
MindNotFoundUndefined(mindName) == Undefined

\* filesystem.ts 120-127: stderr `Mind "${mindName}" not found`
MindNotFound(mindName) == Failure(<<"Mind", mindName, "not found">>)

\* filesystem.ts 148-154: stderr `Unsupported script type: .${ext}. Use ...`
UnsupportedType(ext) == Failure(<<"Unsupported script type", ".">> \o ext)

\* filesystem.ts 159-166: stderr `Script not found: scripts/${scriptPath}`
ScriptNotFound(scriptPath) ==
  Failure(<<"Script", "not found", "scripts", "/">> \o scriptPath)

\* An executeScript whose spawn is outside the try.
SpawnFailedUncaught(error) ==
  [status |-> "rejected", value |-> Undefined]

\* filesystem.ts 190-197: the catch; stderr `Execution failed: ${error}`
SpawnFailed(error) ==
  [status |-> "resolved", value |-> Failure(<<"Execution failed", error>>)]

\* A result that reports success whenever the process wrote no stderr.
ProcessResultByStderr(out) ==
  [tag |-> "result", success |-> (out.stderr = <<>>), stdout |-> Trim(out.stdout),
   stderr |-> Trim(out.stderr), exitCode |-> out.exitCode]

\* filesystem.ts 184-189
ProcessResult(out) ==
  [tag |-> "result", success |-> (out.exitCode = 0), stdout |-> Trim(out.stdout),
   stderr |-> Trim(out.stderr), exitCode |-> out.exitCode]

\* filesystem.ts 169-178: the options Bun.spawn is given
SpawnOptions(mindName, mindDir) ==
  [cwd |-> mindDir,
   env |-> [v \in DOMAIN ProcessEnv \cup {"MIND_NAME", "MIND_DIR"} |->
              IF v = "MIND_NAME" THEN mindName
              ELSE IF v = "MIND_DIR" THEN mindDir
              ELSE ProcessEnv[v]]]

\* filesystem.ts 114-157: executeScript up to its await of exists();
\* present tells whether the file the path resolves to exists, which a call
\* that ends here never asks.
FsExecuteScriptStart(s, mindName, scriptPath, args, present) ==
  /\ MayBegin(s)
  /\ LET done(value) ==
           /\ ret' = [op |-> "fs.executeScript", mindName |-> mindName,
                      scriptPath |-> scriptPath, args |-> args,
                      indexed |-> mindName \in DOMAIN mindDirs,
                      probed |-> FALSE, exists |-> present, spawned |-> FALSE,
                      process |-> NoFile, status |-> "resolved", value |-> value]
           /\ pcall' = NoCall
           /\ UNCHANGED tasks
     IN IF mindName \notin DOMAIN mindDirs
        THEN done(MindNotFound(mindName))
        ELSE IF Interpreter(Ext(scriptPath)) = "unsupported"
        THEN done(UnsupportedType(Ext(scriptPath)))
        ELSE LET mindDir == MindDir(mindDirs[mindName])
                 fullPath == ScriptPath(mindDir, scriptPath)
             IN /\ tasks' = [tasks EXCEPT ![s] =
                               [op |-> "fs.executeScript", mindName |-> mindName,
                                scriptPath |-> scriptPath, args |-> args,
                                mindDir |-> mindDir, fullPath |-> fullPath,
                                command |-> Command(Ext(scriptPath), fullPath, args),
                                awaits |-> "exists"]]
                /\ pcall' = [op |-> "exists", path |-> fullPath]
                /\ ret' = NoRet
  /\ UNCHANGED <<config, globals, filesystem, indices, epoch, loadMindCalled,
                 lastInit>>

\* filesystem.ts 157-182: exists() resolves; a missing script ends the
\* call, else Bun.spawn is called and starts a process or throws.
FsExecuteScriptExists(s, exists, started) ==
  /\ tasks[s].op = "fs.executeScript"
  /\ tasks[s].awaits = "exists"
  /\ LET t == tasks[s]
         done(outcome, spawned) ==
           /\ ret' = [op |-> "fs.executeScript", mindName |-> t.mindName,
                      scriptPath |-> t.scriptPath, args |-> t.args,
                      indexed |-> TRUE, probed |-> TRUE, exists |-> exists,
                      spawned |-> spawned, process |-> NoFile,
                      status |-> outcome.status, value |-> outcome.value]
           /\ tasks' = [tasks EXCEPT ![s] = Idle]
     IN IF ~exists
        THEN /\ done([status |-> "resolved", value |-> ScriptNotFound(t.scriptPath)], FALSE)
             /\ pcall' = NoCall
        ELSE /\ pcall' = [op |-> "spawn", command |-> t.command,
                          options |-> SpawnOptions(t.mindName, t.mindDir)]
             /\ IF started
                THEN /\ tasks' = [tasks EXCEPT ![s].awaits = "exit"]
                     /\ ret' = NoRet
                ELSE done(SpawnFailed("ENOENT"), FALSE)
  /\ UNCHANGED <<config, globals, filesystem, indices, epoch, loadMindCalled,
                 lastInit>>

\* filesystem.ts 180-197: the output is read and the process exits, or
\* reading it fails
FsExecuteScriptExit(s, out) ==
  /\ tasks[s].op = "fs.executeScript"
  /\ tasks[s].awaits = "exit"
  /\ LET t == tasks[s]
         outcome == IF out.tag = "exited"
                    THEN [status |-> "resolved", value |-> ProcessResult(out)]
                    ELSE SpawnFailed("EPIPE")
     IN ret' = [op |-> "fs.executeScript", mindName |-> t.mindName,
                scriptPath |-> t.scriptPath, args |-> t.args,
                indexed |-> TRUE, probed |-> TRUE, exists |-> TRUE,
                spawned |-> TRUE, process |-> out,
                status |-> outcome.status, value |-> outcome.value]
  /\ tasks' = [tasks EXCEPT ![s] = Idle]
  /\ pcall' = NoCall
  /\ UNCHANGED <<config, globals, filesystem, indices, epoch, loadMindCalled,
                 lastInit>>

\* The directory indexes discover() and the fallback loads can leave.
IndexMaps == UNION {[S -> Dirs] : S \in SUBSET Names}

\* A FileSystemProvider with some directory index, called one call at a
\* time; the files and the processes are the environment.
InitFSCalls ==
  /\ callers = "sequential"
  /\ Constructed
  /\ providers = <<>>
  /\ strategy = "first"
  /\ ModuleLoaded
  /\ disk = [d \in Dirs |-> NoFile]
  /\ baseDir \in BaseDirs
  /\ mindDirs \in IndexMaps
  /\ input = NoInput

NextFSCalls ==
  \/ \E s \in Slots, mindName \in Names, path \in CallPaths :
       FsReadResourceStart(s, mindName, path)
  \/ \E s \in Slots, exists \in BOOLEAN : FsReadResourceExists(s, exists)
  \/ \E s \in Slots, out \in FileTextOutcomes : FsReadResourceText(s, out)
  \/ \E s \in Slots, mindName \in Names, scriptPath \in CallPaths, args \in ArgsSet,
          present \in BOOLEAN :
       FsExecuteScriptStart(s, mindName, scriptPath, args, present)
  \/ \E s \in Slots, exists \in BOOLEAN, started \in BOOLEAN :
       FsExecuteScriptExists(s, exists, started)
  \/ \E s \in Slots, out \in ProcessOutcomes : FsExecuteScriptExit(s, out)

SpecFSCalls == InitFSCalls /\ [][NextFSCalls]_vars

\* ---- what the latest init() call was told --------------------------------
\* The providers of this.providers, by position, whose discover() listed n.
Declarers(n) == {k \in 1..Len(lastInit.declared) : n \in lastInit.declared[k]}

Least(S) == CHOOSE x \in S : \A y \in S : x <= y

Greatest(S) == CHOOSE x \in S : \A y \in S : x >= y

\* The entries of name n in the list discover() number k resolved to, as
\* the init() call that just returned received it.
Places(k, n) == {i \in 1..Len(ret.seen[k]) : ret.seen[k][i].name = n}

FirstEntry(k, n) == ret.seen[k][Least(Places(k, n))]

LastEntry(k, n) == ret.seen[k][Greatest(Places(k, n))]

AsyncOps == {"loadMind", "readResource", "executeScript"}

LookupOps == {"hasMind", "getMetadata", "getProviderForMind",
              "supportsScripts", "listMinds", "generateAvailableMinds"}

\* ---- claims --------------------------------------------------------------
\* C1: after an init() that ran to completion under strategy `first`
\* (given, or omitted), every declared name is owned by the earliest
\* provider that listed it, and when init() returns its metadata is that
\* provider's (first) entry.
C1_FirstWins ==
  (/\ lastInit.status = "resolved"
   /\ strategy \in {"first", StrategyOf("omitted")}) =>
    \A n \in Names :
      Declarers(n) # {} =>
        LET k == Least(Declarers(n))
        IN /\ getProviderForMind(n) = [tag |-> "provider", id |-> providers[k]]
           /\ ret.op = "init" => getMetadata(n) = FirstEntry(k, n)

\* Strategy omitted: init() returned, a name was declared by two providers.
C1_Witness ==
  /\ ret.op = "init"
  /\ ret.status = "resolved"
  /\ strategy = StrategyOf("omitted")
  /\ \E n \in Names : Cardinality(Declarers(n)) >= 2

\* C2: after an init() that ran to completion under strategy `last`, every
\* declared name is owned by the latest provider that listed it and its
\* metadata comes from that provider (when init() returns it is that
\* provider's last entry), and loadMind asks that provider.
C2_LastWins ==
  (lastInit.status = "resolved" /\ strategy = "last") =>
    /\ \A n \in Names :
         Declarers(n) # {} =>
           LET k == Greatest(Declarers(n))
           IN /\ n \in DOMAIN mindProviderMap
              /\ mindProviderMap[n] = providers[k]
              /\ getMetadata(n).description[1] = providers[k]
              /\ ret.op = "init" => getMetadata(n) = LastEntry(k, n)
    /\ pcall.op = "loadMind" =>
         /\ Declarers(pcall.name) # {}
         /\ pcall.provider = providers[Greatest(Declarers(pcall.name))]

\* Strategy `last`: loadMind of a name two providers declared is under way.
C2_Witness ==
  /\ lastInit.status = "resolved"
  /\ strategy = "last"
  /\ pcall.op = "loadMind"
  /\ Cardinality(Declarers(pcall.name)) >= 2

\* C3: in every reachable state the metadata map and the ownership map
\* hold the same keys, so a name hasMind knows has both a metadata entry
\* and an owner.
C3_SameKeys ==
  /\ MetaKeys(metadataCache) = DOMAIN mindProviderMap
  /\ \A n \in Names :
       hasMind(n) =>
         getMetadata(n) # Undefined /\ getProviderForMind(n) # Undefined

\* An init() failed at a later provider and left the earlier entries.
C3_Witness ==
  /\ lastInit.status = "rejected"
  /\ DOMAIN mindProviderMap # {}

\* C4: when a re-invoked init() returns, the content cache holds no Mind
\* loaded before the call, and a name no discover() lists any more is in
\* none of the three maps nor in listMinds(); the next loadMind of a known
\* name asks the owner again.
C4_AtReturn ==
  (ret.op = "init" /\ ret.status = "resolved") =>
    /\ \A n \in DOMAIN mindCache : mindCache[n].epoch >= epoch
    /\ \A n \in Names :
         Declarers(n) = {} =>
           /\ n \notin MetaKeys(metadataCache)
           /\ n \notin DOMAIN mindProviderMap
           /\ n \notin DOMAIN mindCache
           /\ \A i \in 1..Len(listMinds) : listMinds[i] # n

C4_NextLoad ==
  (ret.op = "init" /\ ret.status = "resolved" /\ ret'.op = "loadMind") =>
    ~hasMind(ret'.name)

C4_ReinitResets == []C4_AtReturn /\ [][C4_NextLoad]_vars

\* A second init() returned; a Mind cached before it belongs to a name
\* that is no longer listed.
C4_Witness ==
  /\ ret.op = "init"
  /\ ret.status = "resolved"
  /\ \E n \in ret.before.cached : Declarers(n) = {}

\* C5: between two resets the provider call that returned the cached Mind
\* is the last one made for that name (a provider that returns a Mind at
\* once is called exactly once), and loadMind returns the cached object.
C5_LoadOnce ==
  /\ \A n \in DOMAIN mindCache : loadMindCalled[n] = mindCache[n].serial
  /\ (ret.op = "loadMind" /\ ret.value # Undefined) =>
       /\ ret.name \in DOMAIN mindCache
       /\ mindCache[ret.name] = ret.value

\* A loadMind answered from the cache after one provider call.
C5_Witness ==
  /\ ret.op = "loadMind"
  /\ ~ret.asked
  /\ ret.value # Undefined
  /\ loadMindCalled[ret.name] = 1

\* C6: loadMind, readResource and executeScript of a name without owner
\* resolve to undefined, call no provider and change no index.
C6_Step ==
  /\ (ret'.op \in AsyncOps /\ ret'.name \notin DOMAIN mindProviderMap) =>
       /\ ret'.status = "resolved"
       /\ ret'.value = Undefined
       /\ ~ret'.asked
       /\ pcall' = NoCall
       /\ UNCHANGED <<indices, tasks>>
  /\ pcall'.op \in AsyncOps => pcall'.name \in DOMAIN mindProviderMap

C6_UnknownName == [][C6_Step]_vars

\* An initialized registry was asked for a name it does not know.
C6_Witness ==
  /\ ret.op \in AsyncOps
  /\ ret.name \notin DOMAIN mindProviderMap
  /\ DOMAIN mindProviderMap # {}

\* C7: every provider call made for a name goes to the provider recorded
\* as its owner, and the ownership map changes only in an init().
C7_Step ==
  /\ pcall'.op \in AsyncOps =>
       /\ pcall'.name \in DOMAIN mindProviderMap'
       /\ pcall'.provider = mindProviderMap'[pcall'.name]
  /\ mindProviderMap' # mindProviderMap =>
       \/ epoch' # epoch
       \/ \E s \in Slots : tasks[s].op = "init"

C7_OwnerServes == [][C7_Step]_vars

\* A provider call for a name that two providers declared.
C7_Witness ==
  /\ pcall.op \in AsyncOps
  /\ lastInit.status = "resolved"
  /\ Cardinality(Declarers(pcall.name)) >= 2

\* C8: when the discover() of provider k rejects, init() rejects with that
\* provider's error and the two maps keep exactly what providers 1..k-1
\* put there, with the same keys.
C8_AtFailure ==
  (ret.op = "init" /\ "failedAt" \in DOMAIN ret) =>
    /\ ret.status = "rejected"
    /\ ret.failedAt = Len(ret.seen) + 1
    /\ Len(lastInit.declared) = Len(ret.seen)
    /\ ret.error = [from |-> providers[ret.failedAt]]
    /\ DOMAIN mindProviderMap = {n \in Names : Declarers(n) # {}}
    /\ MetaKeys(metadataCache) = DOMAIN mindProviderMap

C8_FailureStep ==
  (ret'.op = "init" /\ "failedAt" \in DOMAIN ret') =>
    UNCHANGED <<metadataCache, mindProviderMap>>

C8_DiscoverFails == []C8_AtFailure /\ [][C8_FailureStep]_vars

\* The second provider's discover() rejected after the first was merged.
C8_Witness ==
  /\ ret.op = "init"
  /\ ret.status = "rejected"
  /\ ret.failedAt >= 2
  /\ Len(metadataCache) >= 1

\* C9: the lookups call no provider and change no index; hasMind is
\* membership in the ownership map.
C9_Step ==
  ret'.op \in LookupOps =>
    /\ pcall' = NoCall
    /\ UNCHANGED <<indices, tasks>>
    /\ ret'.op = "hasMind" => ret'.value = (ret'.name \in DOMAIN mindProviderMap)

C9_LookupsArePure == [][C9_Step]_vars

\* hasMind answered false on a registry that has providers.
C9_Witness ==
  /\ ret.op = "hasMind"
  /\ ret.value = FALSE
  /\ providers # <<>>

C10_AtReturn ==
  /\ ret.op = "supportsScripts" =>
       ret.value = (/\ ret.name \in DOMAIN mindProviderMap
                    /\ HasExecuteScript(mindProviderMap[ret.name]))
  /\ ret.op = "executeScript" =>
       /\ ret.asked <=> supportsScripts(ret.name)
       /\ ~ret.asked => ret.value = Undefined
       /\ ret.asked => ret.value = ret.provided

C10_Call ==
  pcall'.op = "executeScript" =>
    \E s \in Slots :
      /\ tasks[s] = Idle
      /\ tasks'[s].op = "executeScript"
      /\ pcall'.name = tasks'[s].name
      /\ pcall'.path = tasks'[s].path
      /\ pcall'.args = tasks'[s].args
      /\ pcall'.provider = mindProviderMap[pcall'.name]

C12_AvailableMinds ==
  ret.op = "generateAvailableMinds" =>
    LET out == ret.value
    IN /\ (out.text = "No minds installed.") <=> (DOMAIN mindProviderMap = {})
       /\ DOMAIN mindProviderMap = {} => out.lines = <<>>
       /\ DOMAIN mindProviderMap # {} =>
            /\ out.text = "Available minds:"
            /\ Len(out.lines) = Len(listMinds)
            /\ \A i \in 1..Len(out.lines) :
                 /\ out.lines[i].bullet = "- "
                 /\ out.lines[i].name = listMinds[i]
                 /\ out.lines[i].description =
                      getMetadata(listMinds[i]).description

\* The list of a registry that holds two minds.
C12_Witness ==
  /\ ret.op = "generateAvailableMinds"
  /\ Len(ret.value.lines) >= 2

\* The names the discover() lists of one init() call hold, in the order
\* they were received, and the same without the repeated ones.
RECURSIVE NamesInOrder(_)
NamesInOrder(seen) ==
  IF seen = <<>> THEN <<>>
  ELSE [i \in 1..Len(Head(seen)) |-> Head(seen)[i].name]
         \o NamesInOrder(Tail(seen))

RECURSIVE FirstOccurrences(_)
FirstOccurrences(q) ==
  IF q = <<>> THEN <<>>
  ELSE LET front == FirstOccurrences(SubSeq(q, 1, Len(q) - 1))
           last == q[Len(q)]
       IN IF \E i \in 1..Len(front) : front[i] = last
          THEN front
          ELSE Append(front, last)

\* C13: listMinds() holds every known name exactly once; it is empty
\* before the first init() and without providers; when init() returns the
\* names are in the order of their first discovery, also a name that a
\* later provider overwrote.
C13_ListMinds ==
  /\ \A i, j \in 1..Len(listMinds) : i # j => listMinds[i] # listMinds[j]
  /\ {listMinds[i] : i \in 1..Len(listMinds)} = {n \in Names : hasMind(n)}
  /\ epoch = 0 => listMinds = <<>>
  /\ providers = <<>> => listMinds = <<>>
  /\ (ret.op = "init" /\ ret.status = "resolved") =>
       listMinds = FirstOccurrences(NamesInOrder(ret.seen))
  /\ ret.op = "listMinds" => ret.value = listMinds

\* Strategy `last`: the name discovered first was overwritten by a later
\* provider and another name was discovered after it.
C13_Witness ==
  /\ ret.op = "init"
  /\ ret.status = "resolved"
  /\ strategy = "last"
  /\ Len(listMinds) >= 2
  /\ Cardinality(Declarers(listMinds[1])) >= 2

\* C11 as stated: a mind whose owner defines an executeScript that resolves
\* to undefined (it never produces a ScriptResult) is reported by
\* supportsScripts as unsupported.
C11_Step ==
  (/\ ret.op = "executeScript"
   /\ ret.asked
   /\ ret.value = Undefined
   /\ ret'.op = "supportsScripts"
   /\ ret'.name = ret.name) =>
    ret'.value = FALSE

C11_MockUnsupported == [][C11_Step]_vars

\* C16: an init() call on a registry that was initialized before leaves
\* the listMinds() sequence, the metadata and the owners that one init()
\* call on a new registry leaves for the same discover() results.
C16_SameAsOnce ==
  (ret.op = "init" /\ ret.status = "resolved") =>
    LET once == InitOnce(Len(ret.seen), ret.seen)
    IN /\ mindProviderMap = once.mindProviderMap
       /\ metadataCache = once.metadataCache
       /\ listMinds = [i \in 1..Len(once.metadataCache) |->
                         once.metadataCache[i].name]

\* A second init() returned and knows the names the first one left.
C16_Witness ==
  /\ ret.op = "init"
  /\ ret.status = "resolved"
  /\ epoch >= 2
  /\ ret.before.known # {}
  /\ ret.before.known = DOMAIN mindProviderMap

\* A loadMind(n) call begins and asks the owner.
LoadMindAsks(n) ==
  \E s \in Slots : LoadMindStart(s, n) /\ pcall'.op = "loadMind"

\* C17: a loadMind of a registered, not yet cached name that is awaiting
\* its provider does not keep a second loadMind of that name from asking
\* the provider as well (as long as the model has a free slot and a
\* provider call left).
C17_NoSingleFlight ==
  \A n \in Names :
    (/\ hasMind(n)
     /\ n \notin DOMAIN mindCache
     /\ \E s \in Slots : tasks[s].op = "loadMind" /\ tasks[s].name = n
     /\ \E s \in Slots : tasks[s] = Idle
     /\ LoadsMade(Names) < MaxLoads) =>
      ENABLED LoadMindAsks(n)

\* Two loadMind calls of one name await the provider, which was called
\* twice since the last reset.
C17_Witness ==
  \E n \in Names :
    /\ loadMindCalled[n] >= 2
    /\ \E s, t \in Slots :
         /\ s # t
         /\ tasks[s].op = "loadMind" /\ tasks[s].name = n
         /\ tasks[t].op = "loadMind" /\ tasks[t].name = n


\* C14: while initMindRegistry has never been called, getMindRegistry()
\* throws "MindRegistry not initialized. Call initMindRegistry first." and
\* returns no instance.
C14_NeverInitialized ==
  (ret.op = "getMindRegistry" /\ ret.calls = 0) =>
    /\ ret.result.status = "threw"
    /\ ret.result.error = "MindRegistry not initialized. Call initMindRegistry first."
    /\ "value" \notin DOMAIN ret.result

C14_Witness ==
  /\ ret.op = "getMindRegistry"
  /\ ret.calls = 0
  /\ ret.result.status = "threw"

\* C15: under sequential use, when initMindRegistry(options) has completed,
\* getMindRegistry() returns the registry that call returned, which is not
\* the previous one, and no step of the call changes the previous
\* registry's metadata map, content cache or ownership map.
C15_AtReturn ==
  (ret.op = "initMindRegistry" /\ ret.status = "resolved") =>
    /\ getMindRegistry = [status |-> "returned", value |-> ret.value]
    /\ ret.value = ret.made
    /\ ret.value # ret.previous

C15_Step ==
  \A s \in Slots :
    (tasks'[s] # tasks[s]
       /\ (tasks[s].op = "initMindRegistry" \/ tasks'[s].op = "initMindRegistry")) =>
      LET previous == IF tasks[s].op = "initMindRegistry"
                      THEN tasks[s].previous ELSE registryInstance
      IN previous # NoInstance =>
           /\ previous \in DOMAIN instances'
           /\ instances'[previous] = instances[previous]

C15_Replaces == []C15_AtReturn /\ [][C15_Step]_vars

C15_Witness ==
  /\ ret.op = "initMindRegistry"
  /\ ret.status = "resolved"
  /\ ret.previous # NoInstance
  /\ instances[ret.previous].metadataCache # <<>>
  /\ DOMAIN instances[ret.previous].mindCache # {}
  /\ instances[ret.made].metadataCache # instances[ret.previous].metadataCache

\* C18: in FileSystemProvider.discover() a candidate whose read or parse
\* fails is skipped: it adds nothing to the result or to the directory
\* index and the scan goes on; a valid candidate is pushed and indexed; the
\* call resolves and every returned name is in the directory index.
C18_Candidate ==
  \A s \in Slots :
    (tasks[s].op = "fs.discover" /\ tasks[s].current # NoDir
       /\ tasks'[s] # tasks[s]) =>
      LET d == tasks[s].current
          f == disk[d]
      IN /\ tasks'[s].op = "fs.discover"
         /\ IF f.kind = "valid"
            THEN /\ tasks'[s].minds = Append(tasks[s].minds, [name |-> f.name])
                 /\ f.name \in DOMAIN mindDirs'
                 /\ mindDirs'[f.name] = d
            ELSE /\ tasks'[s].minds = tasks[s].minds
                 /\ mindDirs' = mindDirs

C18_AtReturn ==
  ret.op = "fs.discover" =>
    /\ ret.status = "resolved"
    /\ \A i \in 1..Len(ret.value) : ret.value[i].name \in DOMAIN mindDirs

C18_Resilient == []C18_AtReturn /\ [][C18_Candidate]_vars

C18_Witness ==
  /\ ret.op = "fs.discover"
  /\ Len(ret.value) = 1
  /\ \E d \in ret.visited : disk[d].kind \in {"invalid", "unreadable"}
  /\ \E d \in ret.visited : disk[d].kind = "valid"
  /\ DOMAIN mindDirs = {ret.value[1].name}

C20_Fallback ==
  (ret.op = "fs.loadMind" /\ ret.path = "fallback") =>
    /\ ret.status = "resolved"
    /\ IF FileExists(ret.probed) /\ ret.file.kind = "valid"
       THEN /\ ret.value # Undefined
            /\ ret.value.metadata.name = ret.file.name
            /\ ret.value.content = ret.file.body
       ELSE ret.value = Undefined

C20_HasMind ==
  ret.op = "fs.hasMind" =>
    (ret.value <=> (ret.name \in DOMAIN mindDirs \/ FileExists(disk[ret.name])))

C20_FallbackProbe == C20_Fallback /\ C20_HasMind

C20_Witness ==
  /\ ret.op = "fs.loadMind"
  /\ ret.path = "fallback"
  /\ ret.value # Undefined
  /\ DOMAIN mindDirs = {ret.name}

\* C21: FileSystemProvider.readResource never throws; it returns undefined
\* when the mind is not in the directory index, when the normalized path
\* does not exist and when the file cannot be read, and the file's text
\* only for an indexed mind and an existing file.
C21_ReadResource ==
  ret.op = "fs.readResource" =>
    /\ ret.status = "resolved"
    /\ (~ret.indexed \/ ~ret.exists \/ ret.read.tag # "text") => ret.value = Undefined
    /\ ret.value # Undefined =>
         /\ ret.indexed
         /\ ret.exists
         /\ ret.value = ret.read

\* No two neighbouring dots: the text holds no "..".
NoDotDot(q) == \A i \in 1..(Len(q) - 1) : ~(q[i] = "." /\ q[i + 1] = ".")

\* The tokens of q that are not dots, in order.
RECURSIVE NonDots(_)
NonDots(q) ==
  IF q = <<>> THEN <<>>
  ELSE IF q[1] = "." THEN NonDots(Tail(q))
       ELSE <<q[1]>> \o NonDots(Tail(q))

Cites(stderr, phrase) == \E i \in 1..Len(stderr) : stderr[i] = phrase

\* A failure ScriptResult that cites "not found".
NotFoundFailure(value) ==
  /\ value # Undefined
  /\ value.success = FALSE
  /\ value.exitCode = 1
  /\ Cites(value.stderr, "not found")

\* C23 as stated: executeScript returns a failure result citing "not found"
\* and spawns nothing whenever the mind is not indexed or the resolved
\* script file does not exist.
C23_NotFoundWhenMissing ==
  ret.op = "fs.executeScript" =>
    ((~ret.indexed \/ ~ret.exists) =>
       (NotFoundFailure(ret.value) /\ ~ret.spawned))

\* C23 amended: executeScript returns a failure result citing "not found",
\* never undefined, and spawns nothing when the mind is not indexed, or
\* when the extension is supported and the resolved script file does not
\* exist.
C23_NotFound ==
  ret.op = "fs.executeScript" =>
    ((~ret.indexed
        \/ (Interpreter(Ext(ret.scriptPath)) # "unsupported" /\ ~ret.exists)) =>
       (NotFoundFailure(ret.value) /\ ~ret.spawned))

C23_Witness ==
  /\ ret.op = "fs.executeScript"
  /\ ret.indexed
  /\ ret.probed
  /\ ~ret.exists
  /\ Cites(ret.value.stderr, "not found")

\* The interpreter the claim assigns to a script path: by the extension
\* after the last dot, read without regard to case; none without a dot.
InterpreterOfExtension(scriptPath) ==
  IF Dots(scriptPath) = {} THEN "unsupported"
  ELSE Interpreter(Ext(scriptPath))

\* C24: executeScript runs .ts and .js with the JS/TS runtime, .sh with
\* the shell and .py with Python 3, as interpreter, script path, args; a
\* path with any other extension, or with none, gets a failure result at
\* once and no process, whether or not the file exists.
C24_ByExtension ==
  /\ ret.op = "fs.executeScript" /\ ret.indexed =>
       (InterpreterOfExtension(ret.scriptPath) = "unsupported" =>
          /\ ~ret.spawned
          /\ ret.value # Undefined
          /\ ret.value.success = FALSE)
  /\ pcall.op = "spawn" =>
       \E s \in Slots \cup {0} :
         LET call == IF s = 0 THEN ret ELSE tasks[s]
         IN /\ call.op = "fs.executeScript"
            /\ pcall.command.interpreter = InterpreterOfExtension(call.scriptPath)
            /\ pcall.command.interpreter # "unsupported"
            /\ pcall.command.args = (IF call.args = NoArgs THEN <<>> ELSE call.args.items)

\* C25: the ScriptResult of executeScript has success = true iff a process
\* was spawned and exited with code 0; when a process ran to its exit,
\* exitCode is its exit code and stdout/stderr are its output without the
\* leading and trailing whitespace.
C25_ProcessResult ==
  ret.op = "fs.executeScript" =>
    /\ ret.status = "resolved"
    /\ ret.value.success <=>
         (ret.spawned /\ ret.process.tag = "exited" /\ ret.process.exitCode = 0)
    /\ (ret.spawned /\ ret.process.tag = "exited") =>
         /\ ret.value.exitCode = ret.process.exitCode
         /\ ret.value.stdout = (IF ret.process.stdout = <<>> THEN <<>> ELSE <<"ok">>)
         /\ ret.value.stderr = (IF ret.process.stderr = <<>> THEN <<>> ELSE <<"ok">>)

C25_Witness ==
  /\ ret.op = "fs.executeScript"
  /\ ret.spawned
  /\ ret.process.tag = "exited"
  /\ ret.process.exitCode = 2
  /\ ret.process.stderr = <<>>
  /\ ret.process.stdout # <<>>
  /\ ~ret.value.success

\* C26: executeScript never rejects: every call resolves to a
\* ScriptResult, and a failure of the spawn or of reading the process is
\* turned into a failure result whose stderr carries the exception.
C26_NeverThrows ==
  ret.op = "fs.executeScript" =>
    /\ ret.status = "resolved"
    /\ ret.value # Undefined
    /\ ret.value.tag = "result"
    /\ (ret.exists /\ ret.probed /\ (~ret.spawned \/ ret.process.tag = "rejects")) =>
         /\ ret.value.success = FALSE
         /\ Cites(ret.value.stderr, "Execution failed")
         /\ \E i \in 1..Len(ret.value.stderr) : ret.value.stderr[i] \in {"ENOENT", "EPIPE"}

C26_Witness ==
  /\ ret.op = "fs.executeScript"
  /\ ret.probed
  /\ ret.exists
  /\ ~ret.spawned
  /\ Cites(ret.value.stderr, "ENOENT")

\* A path that starts at the root.
IsAbsolute(q) == q # <<>> /\ q[1] = "/"

\* C27: whenever executeScript spawns a process, the working directory of
\* the child is the mind's directory and its environment is the inherited
\* one plus MIND_NAME = the mind's name and MIND_DIR = the mind's absolute
\* directory.
C27_SpawnContext ==
  pcall.op = "spawn" =>
    \E s \in Slots \cup {0} :
      LET call == IF s = 0 THEN ret ELSE tasks[s]
      IN /\ call.op = "fs.executeScript"
         /\ pcall.options.cwd = MindDir(mindDirs[call.mindName])
         /\ DOMAIN pcall.options.env = DOMAIN ProcessEnv \cup {"MIND_NAME", "MIND_DIR"}
         /\ \A v \in DOMAIN ProcessEnv \ {"MIND_NAME", "MIND_DIR"} :
              pcall.options.env[v] = ProcessEnv[v]
         /\ pcall.options.env["MIND_NAME"] = call.mindName
         /\ pcall.options.env["MIND_DIR"] = MindDir(mindDirs[call.mindName])
         /\ IsAbsolute(pcall.options.env["MIND_DIR"])

\* ---- parser.ts: parseFrontmatter and parseMindMd --------------------------
\* Text is a sequence of one-character strings.
LowerChars ==
  {"a", "b", "c", "d", "e", "f", "g", "h", "i", "j", "k", "l", "m", "n", "o",
   "p", "q", "r", "s", "t", "u", "v", "w", "x", "y", "z"}
UpperChars ==
  {"A", "B", "C", "D", "E", "F", "G", "H", "I", "J", "K", "L", "M", "N", "O",
   "P", "Q", "R", "S", "T", "U", "V", "W", "X", "Y", "Z"}
DigitChars == {"0", "1", "2", "3", "4", "5", "6", "7", "8", "9"}

\* \w of the regular expressions
WordChars == LowerChars \cup UpperChars \cup DigitChars \cup {"_"}

\* the characters `.` does not match
LineTerminators == {"\n", "\r"}

\* A value of the frontmatter object: a string, or undefined (also what a
\* missing key reads as).
NoValue == [defined |-> FALSE, text |-> <<>>]
Str(text) == [defined |-> TRUE, text |-> text]

\* The keys of MindFrontmatterSchema the model reads.
NameKey == <<"n", "a", "m", "e">>
DescriptionKey == <<"d", "e", "s", "c", "r", "i", "p", "t", "i", "o", "n">>
CompatibilityKey ==
  <<"c", "o", "m", "p", "a", "t", "i", "b", "i", "l", "i", "t", "y">>
MetadataKey == <<"m", "e", "t", "a", "d", "a", "t", "a">>

Marker == <<"-", "-", "-">>

\* sub occurs in text at position i
OccursAt(text, sub, i) ==
  /\ i >= 1
  /\ i + Len(sub) - 1 <= Len(text)
  /\ SubSeq(text, i, i + Len(sub) - 1) = sub

StartsWith(text, prefix) == OccursAt(text, prefix, 1)

\* parser.ts 10-11: content.match(/^---\n([\s\S]*?)\n---\n([\s\S]*)$/). The
\* lazy first group ends at the first "\n---\n" after the opening "---\n".
FrontmatterRegex(content) ==
  LET opening == Marker \o <<"\n">>
      closing == <<"\n">> \o Marker \o <<"\n">>
      ends == {i \in Len(opening) + 1 .. Len(content) :
                 OccursAt(content, closing, i)}
  IN IF StartsWith(content, opening) /\ ends # {}
     THEN [matched |-> TRUE,
           yaml |-> SubSeq(content, Len(opening) + 1, Least(ends) - 1),
           body |-> SubSeq(content, Least(ends) + Len(closing), Len(content))]
     ELSE [matched |-> FALSE, yaml |-> <<>>, body |-> <<>>]

\* String.split("\n")
Split(text) ==
  LET breaks == {i \in 1..Len(text) : text[i] = "\n"}
      Break(k) == CHOOSE i \in breaks : Cardinality({j \in breaks : j < i}) = k - 1
      From(k) == IF k = 1 THEN 1 ELSE Break(k - 1) + 1
      To(k) == IF k = Cardinality(breaks) + 1 THEN Len(text) ELSE Break(k) - 1
  IN [k \in 1..Cardinality(breaks) + 1 |-> SubSeq(text, From(k), To(k))]

\* Array.join("\n")
RECURSIVE Join(_)
Join(lines) ==
  IF lines = <<>> THEN <<>>
  ELSE IF Len(lines) = 1 THEN lines[1]
  ELSE lines[1] \o <<"\n">> \o Join(Tail(lines))

\* The text left after the longest prefix of characters of the set.
SkipWhile(text, chars) ==
  LET stops == {i \in 1..Len(text) : text[i] \notin chars}
  IN IF stops = {} THEN <<>> ELSE SubSeq(text, Least(stops), Len(text))

\* /^(\w[\w-]*):/ : the key is the longest prefix of word characters and
\* hyphens, it starts with a word character and a colon follows it.
KeyOf(line) ==
  LET rest == SkipWhile(line, WordChars \cup {"-"})
      key == SubSeq(line, 1, Len(line) - Len(rest))
  IN IF key # <<>> /\ key[1] \in WordChars /\ StartsWith(rest, <<":">>)
     THEN key ELSE <<>>

\* What follows the key's colon and the whitespace after it (\s*).
ValueOf(line) ==
  SkipWhile(SubSeq(line, Len(KeyOf(line)) + 2, Len(line)), Whitespace)

\* parser.ts 28: line.match(/^(\w[\w-]*):\s*\|$/)
MultilineIndicator(line) == KeyOf(line) # <<>> /\ ValueOf(line) = <<"|">>

\* parser.ts 53: line.match(/^(\w[\w-]*):\s*(.*)$/)
KeyValueMatch(line) ==
  LET value == ValueOf(line)
  IN /\ KeyOf(line) # <<>>
     /\ \A i \in 1..Len(value) : value[i] \notin LineTerminators

Quoted(value, quote) ==
  StartsWith(value, <<quote>>) /\ value[Len(value)] = quote

\* parser.ts 60-66: quoted values lose their quotes, an empty value is
\* stored as undefined
Scalar(value) ==
  IF Quoted(value, "\"") \/ Quoted(value, "'")
  THEN Str(SubSeq(value, 2, Len(value) - 1))
  ELSE IF value = <<>> THEN NoValue ELSE Str(value)

\* frontmatter[key] = value
Put(frontmatter, key, value) ==
  [k \in DOMAIN frontmatter \cup {key} |->
     IF k = key THEN value ELSE frontmatter[k]]

\* parser.ts 21-24: the variables of the loop; currentKey null is <<>>
LoopStart ==
  [frontmatter |-> <<>>, currentKey |-> <<>>, multilineValue |-> <<>>,
   inMultiline |-> FALSE]

\* parser.ts 30, 47, 74: frontmatter[currentKey] = multilineValue.trim()
Flush(st) ==
  IF st.currentKey # <<>>
  THEN Put(st.frontmatter, st.currentKey, Str(Trim(st.multilineValue)))
  ELSE st.frontmatter

\* parser.ts 26-70: one turn of the loop over the frontmatter's lines
ParseLine(st, line) ==
  IF MultilineIndicator(line)
  THEN [frontmatter |-> IF st.inMultiline THEN Flush(st) ELSE st.frontmatter,
        currentKey |-> KeyOf(line), multilineValue |-> <<>>,
        inMultiline |-> TRUE]
  ELSE IF st.inMultiline /\ StartsWith(line, <<" ", " ">>)
  THEN [st EXCEPT !.multilineValue =
          @ \o SubSeq(line, 3, Len(line)) \o <<"\n">>]
  ELSE LET ends == st.inMultiline /\ Trim(line) # <<>>
           flushed == IF ends THEN Flush(st) ELSE st.frontmatter
       IN IF KeyValueMatch(line)
          THEN [frontmatter |-> Put(flushed, KeyOf(line), Scalar(ValueOf(line))),
                currentKey |-> KeyOf(line),
                multilineValue |-> st.multilineValue,
                inMultiline |-> st.inMultiline /\ ~ends]
          ELSE [frontmatter |-> flushed, currentKey |-> st.currentKey,
                multilineValue |-> st.multilineValue,
                inMultiline |-> st.inMultiline /\ ~ends]

RECURSIVE ParseLines(_, _)
ParseLines(st, lines) ==
  IF lines = <<>> THEN st
  ELSE ParseLines(ParseLine(st, lines[1]), Tail(lines))

\* parser.ts 6-78
parseFrontmatter(content) ==
  LET match == FrontmatterRegex(content)
      st == ParseLines(LoopStart, Split(match.yaml))
  IN IF ~match.matched
     THEN [status |-> "throws"]
     ELSE [status |-> "returns",
           frontmatter |-> IF st.inMultiline THEN Flush(st) ELSE st.frontmatter,
           body |-> Trim(match.body)]

\* ---- types.ts: MindFrontmatterSchema --------------------------------------
NameMax == 64
DescriptionMax == 1024
CompatibilityMax == 500

\* types.ts 9-12: /^[a-z0-9]+(-[a-z0-9]+)*$/ read from position i on, where
\* last tells what was read before it.
RECURSIVE NameRegexFrom(_, _, _)
NameRegexFrom(s, i, last) ==
  IF i > Len(s) THEN last = "alnum"
  ELSE IF s[i] \in LowerChars \cup DigitChars THEN NameRegexFrom(s, i + 1, "alnum")
  ELSE IF s[i] = "-" /\ last = "alnum" THEN NameRegexFrom(s, i + 1, "hyphen")
  ELSE FALSE

NameRegexAnyHyphens(s) ==
  s # <<>> /\ \A i \in 1..Len(s) : s[i] \in LowerChars \cup DigitChars \cup {"-"}

NameRegex(s) == NameRegexFrom(s, 1, "start")

Issue(path, code) == [path |-> path, code |-> code]

\* the value a key of the parsed object reads as
Field(frontmatter, key) ==
  IF key \in DOMAIN frontmatter THEN frontmatter[key] ELSE NoValue

\* types.ts 5-12: name: z.string().min(1).max(64).regex(...); every check of
\* a string runs, so one value can raise several issues.
NameIssues(v) ==
  IF ~v.defined THEN {Issue(NameKey, "invalid_type")}
  ELSE {Issue(NameKey, c) : c \in
         {c \in {"too_small", "too_big", "invalid_string"} :
            \/ c = "too_small" /\ Len(v.text) < 1
            \/ c = "too_big" /\ Len(v.text) > NameMax
            \/ c = "invalid_string" /\ ~NameRegex(v.text)}}

\* types.ts 13: description: z.string().min(1).max(1024)
DescriptionIssues(v) ==
  IF ~v.defined THEN {Issue(DescriptionKey, "invalid_type")}
  ELSE {Issue(DescriptionKey, c) : c \in
         {c \in {"too_small", "too_big"} :
            \/ c = "too_small" /\ Len(v.text) < 1
            \/ c = "too_big" /\ Len(v.text) > DescriptionMax}}

\* types.ts 15: compatibility: z.string().max(500).optional()
CompatibilityIssues(v) ==
  IF v.defined /\ Len(v.text) > CompatibilityMax
  THEN {Issue(CompatibilityKey, "too_big")} ELSE {}

\* types.ts 18: metadata: z.record(z.string(), z.string()).optional(); the
\* parser stores strings only, and a string is not a record.
MetadataIssues(v) ==
  IF v.defined THEN {Issue(MetadataKey, "invalid_type")} ELSE {}

SchemaIssuesFirstField(frontmatter) ==
  IF NameIssues(Field(frontmatter, NameKey)) # {}
  THEN NameIssues(Field(frontmatter, NameKey))
  ELSE DescriptionIssues(Field(frontmatter, DescriptionKey))

\* types.ts 4-19: the object schema checks every key and collects the issues
SchemaIssues(frontmatter) ==
  NameIssues(Field(frontmatter, NameKey))
    \cup DescriptionIssues(Field(frontmatter, DescriptionKey))
    \cup CompatibilityIssues(Field(frontmatter, CompatibilityKey))
    \cup MetadataIssues(Field(frontmatter, MetadataKey))

\* MindFrontmatterSchema.parse: the object with its defined keys, or a throw
\* of the error that carries the issues.
SchemaParse(frontmatter) ==
  IF SchemaIssues(frontmatter) # {}
  THEN [status |-> "throws",
        error |-> [name |-> "ZodError", issues |-> SchemaIssues(frontmatter)]]
  ELSE [status |-> "returns",
        value |-> [k \in {k \in DOMAIN frontmatter : frontmatter[k].defined} |->
                     frontmatter[k].text]]

\* parser.ts 83-97
parseMindMd(content) ==
  LET parsed == parseFrontmatter(content)
      validated == SchemaParse(parsed.frontmatter)
  IN IF parsed.status = "throws"
     THEN [status |-> "throws",
           error |-> [name |-> "Error", issues |-> {}]]
     ELSE IF validated.status = "throws" THEN validated
     ELSE [status |-> "returns",
           value |-> [metadata |-> [name |-> validated.value[NameKey],
                                    description |-> validated.value[DescriptionKey]],
                      frontmatter |-> validated.value,
                      content |-> parsed.body]]

\* ---- the MIND.md documents and frontmatter objects handed to the parser ----
Repeat(c, n) == [i \in 1..n |-> c]

NameAlphabet == {"a", "1", "-", "A", "_"}

\* The name a document declares: none, every string of at most MaxName
\* letters of the alphabet, a name with two hyphens in a row inside it, and
\* names of 64 and 65 letters.
DeclaredNames ==
  {NoValue}
    \cup {Str(s) : s \in UNION {[1..l -> NameAlphabet] : l \in 0..MaxName}}
    \cup {Str(<<"a", "-", "-", "1">>)}
    \cup {Str(Repeat("a", NameMax)), Str(Repeat("a", NameMax + 1))}

DeclaredDescriptions ==
  {NoValue, Str(<<>>), Str(<<"A", " ", "m", "i", "n", "d">>),
   Str(Repeat("x", DescriptionMax)), Str(Repeat("x", DescriptionMax + 1))}

\* What follows the closing marker line: nothing, or a line break and a body.
AfterTexts ==
  {<<>>,
   <<"\n">>,
   <<"\n", "\n", "#", " ", "T", "\n">>,
   <<"\n", " ", " ", "x", " ", "\n", "\n">>,
   <<"\n", "x", "\n", "-", "-", "-", "\n", "y">>}

\* One of the lines of the text is a marker line.
HasMarkerLine(text) ==
  \E k \in DOMAIN Split(text) : Split(text)[k] = Marker

\* The metadata a document declares: none, the flow mapping `{}`, or a
\* `metadata:` line followed by indented `key: value` lines (tools.ts
\* 473-484, 679-686, 700-704).
NoMetadata == [kind |-> "none", entries |-> <<>>]
DeclaredMetadata ==
  {NoMetadata,
   [kind |-> "flow", entries |-> <<>>],
   [kind |-> "block",
    entries |-> <<[key |-> <<"k">>, value |-> <<"v">>, quoted |-> FALSE]>>],
   [kind |-> "block",
    entries |-> <<[key |-> <<"k">>, value |-> <<"v">>, quoted |-> FALSE],
                  [key |-> <<"n">>, value |-> <<"1">>, quoted |-> TRUE]>>]}

\* The documents that vary the name, the documents that vary the marker
\* lines, the description and the body, and the documents that declare
\* metadata; a document without its closing marker line has no marker line
\* further down either.
Templates ==
  {[name |-> n, description |-> d, quoted |-> q, opening |-> TRUE,
    closing |-> TRUE, after |-> a, metadata |-> NoMetadata] :
     n \in DeclaredNames, d \in {NoValue, Str(<<"A", " ", "m", "i", "n", "d">>)},
     q \in BOOLEAN, a \in {<<>>, <<"\n", "\n", "#", " ", "T", "\n">>}}
    \cup
  {t \in
     {[name |-> n, description |-> d, quoted |-> q, opening |-> o,
       closing |-> c, after |-> a, metadata |-> NoMetadata] :
        n \in {NoValue, Str(<<"a">>), Str(<<"A">>)}, d \in DeclaredDescriptions,
        q \in BOOLEAN, o \in BOOLEAN, c \in BOOLEAN, a \in AfterTexts} :
     t.closing \/ ~HasMarkerLine(t.after)}
    \cup
  {[name |-> Str(<<"a">>), description |-> Str(<<"A", " ", "m", "i", "n", "d">>),
    quoted |-> FALSE, opening |-> TRUE, closing |-> TRUE,
    after |-> <<"\n", "\n", "#", " ", "T", "\n">>, metadata |-> m] :
     m \in DeclaredMetadata}

\* The `key: value` line of a declared field, the value in double quotes or
\* as it is.
FieldLines(key, v, quoted) ==
  IF ~v.defined THEN <<>>
  ELSE <<key \o <<":", " ">>
           \o (IF quoted THEN <<"\"">> \o v.text \o <<"\"">> ELSE v.text)>>

\* The lines that declare the metadata.
MetadataLines(m) ==
  IF m.kind = "none" THEN <<>>
  ELSE IF m.kind = "flow" THEN <<MetadataKey \o <<":", " ", "{", "}">>>>
  ELSE <<MetadataKey \o <<":">>>>
         \o [i \in DOMAIN m.entries |->
              <<" ", " ">> \o FieldLines(m.entries[i].key,
                                        Str(m.entries[i].value),
                                        m.entries[i].quoted)[1]]

\* The text of the document, as the tests write it (tools.ts 454-460).
Document(t) ==
  Join((IF t.opening THEN <<Marker>> ELSE <<>>)
         \o FieldLines(NameKey, t.name, t.quoted)
         \o FieldLines(DescriptionKey, t.description, t.quoted)
         \o MetadataLines(t.metadata)
         \o (IF t.closing THEN <<Marker>> ELSE <<>>))
    \o t.after

ParseMindMd ==
  /\ input.op = "document"
  /\ ret' = [op |-> "parseMindMd", result |-> parseMindMd(input.content)]
  /\ pcall' = NoCall
  /\ UNCHANGED <<config, globals, filesystem, indices, tasks, epoch,
                 loadMindCalled, lastInit>>

ParseSchema ==
  /\ input.op = "frontmatter"
  /\ ret' = [op |-> "MindFrontmatterSchema.parse",
             result |-> SchemaParse(input.frontmatter)]
  /\ pcall' = NoCall
  /\ UNCHANGED <<config, globals, filesystem, indices, tasks, epoch,
                 loadMindCalled, lastInit>>

InitParser ==
  /\ callers = "sequential"
  /\ Constructed
  /\ providers = <<>>
  /\ strategy = "first"
  /\ ModuleLoaded
  /\ disk = [d \in Dirs |-> NoFile]
  /\ ProviderConstructed
  /\ baseDir = <<>>
  /\ input \in
       {[op |-> "document", declared |-> t, content |-> Document(t)] :
          t \in Templates}
         \cup
       {[op |-> "frontmatter", declared |-> [name |-> n, description |-> d],
         frontmatter |-> Put(Put(<<>>, NameKey, n), DescriptionKey, d)] :
          n \in DeclaredNames, d \in DeclaredDescriptions}

NextParser ==
  \/ ParseMindMd
  \/ ParseSchema

SpecParser == InitParser /\ [][NextParser]_vars

\* The names the schema is meant to accept: 1 to 64 lowercase letters,
\* digits and hyphens, no hyphen first or last, no two hyphens in a row.
NameAccepted(v) ==
  /\ v.defined
  /\ Len(v.text) >= 1
  /\ Len(v.text) <= NameMax
  /\ \A i \in 1..Len(v.text) : v.text[i] \in LowerChars \cup DigitChars \cup {"-"}
  /\ v.text[1] # "-"
  /\ v.text[Len(v.text)] # "-"
  /\ \A i \in 1..Len(v.text) - 1 : ~(v.text[i] = "-" /\ v.text[i + 1] = "-")

\* The descriptions the schema is meant to accept: 1 to 1024 characters.
DescriptionAccepted(v) ==
  v.defined /\ Len(v.text) >= 1 /\ Len(v.text) <= DescriptionMax

\* The document has its two marker lines and declares an acceptable name
\* and description.
ValidDocument ==
  /\ input.op = "document"
  /\ input.declared.opening
  /\ input.declared.closing
  /\ NameAccepted(input.declared.name)
  /\ DescriptionAccepted(input.declared.description)

\* C28: parseMindMd of a document whose frontmatter satisfies the schema
\* returns a Mind whose metadata.name and metadata.description are the
\* declared ones and whose content is the text after the closing marker
\* line, trimmed.
C28_ParsedMind ==
  (ret.op = "parseMindMd" /\ ValidDocument) =>
    /\ ret.result.status = "returns"
    /\ ret.result.value.metadata.name = input.declared.name.text
    /\ ret.result.value.metadata.description = input.declared.description.text
    /\ ret.result.value.content = Trim(input.declared.after)

\* The schema raised an issue about the name.
NameRejected(result) ==
  result.status = "throws" /\ \E i \in result.error.issues : i.path = NameKey

\* C29: the schema accepts exactly the names of length 1 to 64 made of
\* lowercase letters, digits and single inner hyphens, and parseMindMd of a
\* document declaring any other name throws.
C29_NameValidation ==
  /\ ret.op = "MindFrontmatterSchema.parse" =>
       (NameRejected(ret.result) <=> ~NameAccepted(input.declared.name))
  /\ (ret.op = "parseMindMd" /\ ~NameAccepted(input.declared.name)) =>
       ret.result.status = "throws"

\* a document with both marker lines and a body whose name has two hyphens
\* in a row was rejected by the schema for its name only
C29_Witness ==
  /\ ret.op = "parseMindMd"
  /\ input.declared.opening
  /\ input.declared.closing
  /\ input.declared.after # <<>>
  /\ input.declared.name = Str(<<"a", "-", "-", "1">>)
  /\ ret.result.status = "throws"
  /\ ret.result.error.issues = {Issue(NameKey, "invalid_string")}

\* The required fields the declared frontmatter violates the schema in.
ViolatedFields ==
  {k \in {NameKey, DescriptionKey} :
     \/ k = NameKey /\ ~NameAccepted(input.declared.name)
     \/ k = DescriptionKey /\ ~DescriptionAccepted(input.declared.description)}

\* The error thrown is the validation error.
ValidationError(result) ==
  result.status = "throws" /\ result.error.name = "ZodError"

\* The error has an issue for every violated field.
EnumeratesViolations(result) ==
  \A k \in ViolatedFields : \E i \in result.error.issues : i.path = k

\* C30: parseMindMd throws when a marker line is missing or a required
\* field is missing or violates the schema; the schema answers a violation
\* with the validation error, and a validation error, from the schema or
\* out of parseMindMd, has an issue for every violated field.
C30_ValidationError ==
  /\ (ret.op = "parseMindMd"
        /\ (~input.declared.opening \/ ~input.declared.closing
              \/ ViolatedFields # {})) =>
       ret.result.status = "throws"
  /\ (ret.op = "MindFrontmatterSchema.parse" /\ ViolatedFields # {}) =>
       ValidationError(ret.result)
  /\ (ret.op \in {"parseMindMd", "MindFrontmatterSchema.parse"}
        /\ ValidationError(ret.result)) =>
       EnumeratesViolations(ret.result)

\* parseMindMd of a document with an uppercase name and an empty description
\* threw the validation error with an issue for each of the two
C30_Witness ==
  /\ ret.op = "parseMindMd"
  /\ input.declared.name = Str(<<"A">>)
  /\ input.declared.description = Str(<<>>)
  /\ input.declared.quoted
  /\ ValidationError(ret.result)
  /\ ret.result.error.issues =
       {Issue(NameKey, "invalid_string"), Issue(DescriptionKey, "too_small")}

\* The string-to-string map the declared metadata stands for.
DeclaredMap(m) ==
  [k \in {m.entries[i].key : i \in DOMAIN m.entries} |->
     (CHOOSE e \in {m.entries[i] : i \in DOMAIN m.entries} : e.key = k).value]

\* C31: parseMindMd of a valid document that declares metadata, as indented
\* `key: value` lines under `metadata:` or as `metadata: {}`, returns a Mind
\* whose frontmatter.metadata is the declared map, quoted values unquoted.
C31_NestedMetadata ==
  (ret.op = "parseMindMd" /\ input.declared.metadata.kind # "none") =>
    /\ ret.result.status = "returns"
    /\ MetadataKey \in DOMAIN ret.result.value.frontmatter
    /\ ret.result.value.frontmatter[MetadataKey]
         = DeclaredMap(input.declared.metadata)

\* C32: a document with a valid frontmatter that ends right after its
\* closing marker line parses, and its content is the empty string.
C32_EndsAtMarker ==
  (ret.op = "parseMindMd" /\ ValidDocument /\ input.declared.after = <<>>) =>
    /\ ret.result.status = "returns"
    /\ ret.result.value.content = <<>>

\* The last step was the return of a loadMind whose provider answered
\* undefined.
LoadedUndefined ==
  ret.op = "loadMind" /\ ret.asked /\ ret.value = Undefined

\* C33: a loadMind whose provider answers undefined resolves to undefined
\* and leaves the content cache as it was; the loadMind of that name that
\* comes next is not answered without asking the provider; and a Mind the
\* provider returns is what the content cache holds for the name afterwards.
C33_Step ==
  /\ (ret'.op = "loadMind" /\ ret'.asked /\ ret'.value = Undefined
        /\ ret' # ret) =>
       /\ ret'.status = "resolved"
       /\ mindCache' = mindCache
       /\ ret'.name \notin DOMAIN mindCache'
  /\ (LoadedUndefined /\ ret'.op = "loadMind" /\ ret'.name = ret.name
        /\ ret' # ret) =>
       ret'.asked
  /\ (LoadedUndefined /\ tasks' # tasks /\ \E s \in Slots :
        tasks'[s].op = "loadMind" /\ tasks'[s].name = ret.name) =>
       pcall' = [op |-> "loadMind", provider |-> Owner(ret.name),
                 name |-> ret.name]
  /\ (ret'.op = "loadMind" /\ ret'.asked /\ ret'.value # Undefined
        /\ ret' # ret) =>
       mindCache' = MapSet(mindCache, ret'.name, ret'.value)

C33_CachesDefinedOnly == [][C33_Step]_vars

\* the second provider call for a name since the reset returned a Mind,
\* which is now cached: the first one had answered undefined
C33_Witness ==
  /\ ret.op = "loadMind"
  /\ ret.asked
  /\ ret.value # Undefined
  /\ ret.value.serial = 2
  /\ ret.value.epoch = epoch
  /\ mindCache[ret.name] = ret.value

\* C34: when a discover() of an init() rejects at provider k, the two maps
\* are the merge of the lists of providers 1..k-1 of this call and the
\* content cache is empty; a name known before the call that none of them
\* declared is not known any more.
C34_AtFailure ==
  (ret.op = "init" /\ "failedAt" \in DOMAIN ret) =>
    LET once == InitOnce(ret.failedAt - 1, ret.seen)
    IN /\ Len(ret.seen) = ret.failedAt - 1
       /\ mindProviderMap = once.mindProviderMap
       /\ metadataCache = once.metadataCache
       /\ mindCache = EmptyMap
       /\ \A n \in ret.before.known : Declarers(n) = {} => ~hasMind(n)

\* C34: as long as the failed init() is the latest one, hasMind of a name
\* none of the providers before k declared is false, its loadMind resolves
\* to undefined without a provider call, and no discover() is called but
\* by a new init().
C34_AfterFailure ==
  lastInit.status = "rejected" =>
    /\ (ret'.op = "hasMind" /\ Declarers(ret'.name) = {}) => ret'.value = FALSE
    /\ (ret'.op = "loadMind" /\ Declarers(ret'.name) = {}) =>
         (ret'.value = Undefined /\ ~ret'.asked)
    /\ pcall'.op = "discover" => epoch' = epoch + 1

C34_NoRollback == []C34_AtFailure /\ [][C34_AfterFailure]_vars

\* a second init() failed at its second provider: the first provider's
\* list is merged, a Mind was cached before the call, and a name known
\* before it is gone
C34_Witness ==
  /\ ret.op = "init"
  /\ "failedAt" \in DOMAIN ret
  /\ ret.failedAt = 2
  /\ ret.before.cached # {}
  /\ mindProviderMap # EmptyMap
  /\ \E n \in ret.before.known : ~hasMind(n)

\* ---- init() racing loadMind() on one registry -----------------------------
\* Calls that do not wait for one another, on a registry whose first
\* init() has returned: one re-init and one loadMind() at a time, each
\* free to begin while the other is awaiting a provider, so that the
\* re-init may clear the maps under a loadMind in flight.
NoneAwaiting(op) == \A t \in Slots : tasks[t].op # op

RaceInitStart(s) ==
  /\ NoneAwaiting("init")
  /\ epoch = 1
  /\ InitStart(s)

RaceLoadMindStart(s, name) ==
  /\ NoneAwaiting("loadMind")
  /\ LoadMindStart(s, name)

NextRace ==
  \/ \E s \in Slots : RaceInitStart(s)
  \/ \E s \in Slots, names \in NameLists : InitDiscoverReturn(s, names)
  \/ \E s \in Slots, name \in Names : RaceLoadMindStart(s, name)
  \/ \E s \in Slots, found \in BOOLEAN : LoadMindReturn(s, found)

SpecRace == Initialized /\ [][NextRace]_vars

\* Every cached Mind has an owner and was loaded by a call that began
\* after the most recent reset.
CacheIsFresh ==
  \A n \in DOMAIN mindCache :
    n \in DOMAIN mindProviderMap /\ mindCache[n].epoch = epoch

\* C35 as stated: under any interleaving of init() and loadMind(), every
\* key of the content cache is a key of the ownership map and the cached
\* Mind was loaded after the most recent reset.
C35_NoStaleMind == CacheIsFresh

\* The step is the return of a loadMind that was awaiting its provider
\* when init() cleared the maps.
StaleReturn ==
  \E s \in Slots :
    /\ tasks[s].op = "loadMind"
    /\ tasks[s].epoch < epoch
    /\ tasks'[s] = Idle

\* C35 as amended: the content cache is fresh as long as no loadMind that
\* was awaiting its provider when init() cleared the maps has returned;
\* every other step keeps it fresh.
C35_Step == (CacheIsFresh /\ ~StaleReturn) => CacheIsFresh'

C35_FreshButForStaleReturns == [][C35_Step]_vars

\* a loadMind that began during a re-init has cached its Mind next to
\* another call still in flight
C35_Witness ==
  /\ epoch = 2
  /\ ret.op = "loadMind"
  /\ ret.asked
  /\ ret.value # Undefined
  /\ ret.value.epoch = 2
  /\ mindCache[ret.name] = ret.value
  /\ \E s \in Slots : tasks[s].op = "init"

\* ---- two init() calls that overlap ----------------------------------------
\* registry.ts 195-223 takes no lock: a second init() can start while the
\* first awaits a discover().  The providers of these behaviours answer
\* every discover() with the same list (`input.lists`), so that "one
\* sequential init()" is one definite pair of maps.
StableLists == [1..NumProviders -> NameLists]

Discovered(p) == MetadataList(p, input.lists[p])

SequentialInit ==
  InitOnce(Len(providers), [k \in 1..Len(providers) |-> Discovered(providers[k])])

InitsAwaiting == {t \in Slots : tasks[t].op = "init"}

OverlapInitStart(s) ==
  /\ Cardinality(InitsAwaiting) <= 1
  /\ InitStart(s)

StableDiscoverReturn(s) ==
  /\ tasks[s].op = "init"
  /\ InitDiscoverReturn(s, input.lists[providers[tasks[s].k]])

InitOverlap ==
  /\ callers = "overlapping"
  /\ Constructed
  /\ ModuleLoaded
  /\ disk = [d \in Dirs |-> NoFile]
  /\ baseDir = <<>>
  /\ ProviderConstructed
  /\ input \in {[op |-> "discover", lists |-> l] : l \in StableLists}

NextOverlap ==
  \/ \E s \in Slots : OverlapInitStart(s)
  \/ \E s \in Slots : StableDiscoverReturn(s)

SpecOverlap == InitOverlap /\ [][NextOverlap]_vars

Entries(m) == {m[i] : i \in 1..Len(m)}

SameMaps(idx) ==
  /\ mindProviderMap = idx.mindProviderMap
  /\ Entries(metadataCache) = Entries(idx.metadataCache)

AllCompleted == NoneInFlight /\ lastInit.status = "resolved"

\* Every list merged since the last clear was merged by an init() that had
\* merged nothing before it: the calls in flight at the last clear (at most
\* one) were awaiting their first provider.
ClearedBeforeAnyMerge ==
  Len(lastInit.declared) \in {Len(providers), 2 * Len(providers)}

OwnedByADeclarer ==
  /\ DOMAIN mindProviderMap = DOMAIN SequentialInit.mindProviderMap
  /\ MetaKeys(metadataCache) = DOMAIN mindProviderMap
  /\ Len(metadataCache) = Cardinality(DOMAIN mindProviderMap)
  /\ \A n \in DOMAIN mindProviderMap :
       MetaGet(metadataCache, n) \in Entries(Discovered(mindProviderMap[n]))

\* C36 (as stated): once two overlapping init() calls have both completed,
\* the metadata map and the ownership map are those of one sequential
\* init(), under either strategy.
C36_SameAsSequential == AllCompleted => SameMaps(SequentialInit)

\* C36 (amended): once the overlapping init() calls have completed, the two
\* maps hold the names some provider declares, each owned by a provider
\* declaring it; they are the maps of one sequential init() under `last`,
\* and under `first` when the later call cleared the maps before the
\* earlier one had merged a list.
C36_SameUnlessClearedMidway ==
  AllCompleted =>
    /\ OwnedByADeclarer
    /\ (strategy = "last" \/ ClearedBeforeAnyMerge) => SameMaps(SequentialInit)

C36_Witness ==
  /\ AllCompleted
  /\ epoch = 2
  /\ strategy = "first"
  /\ Len(providers) = 2
  /\ Len(lastInit.declared) = 4
  /\ \E n \in Names : \A d \in Entries(lastInit.declared) : n \in d
  /\ SameMaps(SequentialInit)

\* ---- the global registry under overlapping calls --------------------------
\* initMindRegistry (registry.ts 348-354) is async and the module takes no
\* lock: a second call, or a getMindRegistry(), can run while a first call
\* awaits its init().
InitGlobalRace ==
  /\ callers = "overlapping"
  /\ Constructed
  /\ providers = <<>>
  /\ strategy = "first"
  /\ ModuleLoaded
  /\ NoFileSystem

NextGlobalRace ==
  \/ \E s \in Slots, options \in GlobalOptions : InitMindRegistryStart(s, options)
  \/ \E s \in Slots, names \in NameLists : InitMindRegistryDiscoverReturn(s, names)
  \/ \E s \in Slots : InitMindRegistryDiscoverThrow(s)
  \/ \E s \in Slots : InitMindRegistryReturn(s)
  \/ GetMindRegistry

SpecGlobalRace == InitGlobalRace /\ [][NextGlobalRace]_vars

\* registry.ts 352: some initMindRegistry call still awaits the init() of
\* registry i.
InitAwaited(i) ==
  \E t \in Slots : /\ tasks[t].op = "initMindRegistry"
                   /\ tasks[t].target = i
                   /\ tasks[t].k >= 1

\* C37: every initMindRegistry call resolves to the registry this call
\* constructed, after that registry's init() has completed, also when two
\* calls overlap; never to a registry another call built.
C37_ReturnsOwnInstance ==
  (ret.op = "initMindRegistry" /\ ret.status = "resolved") =>
    /\ ret.value = ret.made
    /\ ~InitAwaited(ret.value)

\* The call that returned last was an initMindRegistry whose init() of
\* registry i rejected.
InitFailed(i) ==
  /\ ret.op = "initMindRegistry"
  /\ ret.status = "rejected"
  /\ ret.made = i

C38_Step ==
  (ret'.op = "getMindRegistry" /\ ret'.result.status = "returned") =>
    /\ ~InitAwaited(ret'.result.value)
    /\ ~InitFailed(ret'.result.value)

\* C38: whenever getMindRegistry() returns a registry, no initMindRegistry
\* call is still awaiting that registry's init(), and its init() has not
\* just failed.
C38_ExposesOnlyInitialized == [][C38_Step]_vars

\* ---- a registry over one FileSystemProvider ------------------------------
\* The registry's only provider is a FileSystemProvider over a directory
\* that does not change; the calls are made one at a time, so each is taken
\* from its first line to its return.
Descriptions == {"first text", "second text"}

\* MIND.md files that carry the description of their frontmatter.
DescribedFiles ==
  {NoFile, [kind |-> "unreadable"], [kind |-> "invalid"]}
    \cup {[kind |-> "valid", name |-> n, body |-> "old", description |-> d] :
            n \in Names, d \in Descriptions}

\* parser.ts 83-97: the Mind of a valid document, with both metadata fields
ParsedMind(f) ==
  IF f.kind = "valid"
  THEN [ok |-> TRUE,
        mind |-> [tag |-> "mind",
                  metadata |-> [name |-> f.name, description |-> f.description],
                  content |-> f.body]]
  ELSE [ok |-> FALSE]

\* filesystem.ts 29, 32: the orders in which glob.scan can yield the
\* directories that hold a MIND.md
DirOrders ==
  {o \in UNION {[1..l -> Dirs] : l \in 0..Cardinality(Dirs)} :
     \A i, j \in 1..Len(o) : o[i] = o[j] => i = j}

ScanOrders ==
  {o \in DirOrders : {o[i] : i \in 1..Len(o)} = {d \in Dirs : FileExists(disk[d])}}

\* filesystem.ts 32-48: the for loop of discover() over the scan
RECURSIVE Scanned(_, _, _)
Scanned(order, dirs, minds) ==
  IF order = <<>>
  THEN [mindDirs |-> dirs, minds |-> minds]
  ELSE LET r == ParsedMind(disk[Head(order)])
       IN Scanned(Tail(order), Indexed(dirs, Head(order), r),
                  IF r.ok THEN Append(minds, r.mind.metadata) ELSE minds)

\* registry.ts 195-223 over filesystem.ts 28-49
FsRegistryInit(order) ==
  /\ NoneInFlight
  /\ order \in ScanOrders
  /\ epoch < MaxInits
  /\ LET found == Scanned(order, mindDirs, <<>>)
         idx == MergeMinds([mindProviderMap |-> ClearedOwners(mindProviderMap),
                            metadataCache |-> <<>>],
                           providers[1], found.minds, strategy)
     IN /\ mindDirs' = found.mindDirs
        /\ mindProviderMap' = idx.mindProviderMap
        /\ metadataCache' = idx.metadataCache
        /\ lastInit' = [status |-> "resolved",
                        declared |-> <<MetaKeys(found.minds)>>]
        /\ ret' = [op |-> "init", status |-> "resolved",
                   before |-> [cached |-> DOMAIN mindCache,
                               known |-> DOMAIN mindProviderMap],
                   seen |-> <<found.minds>>]
  /\ mindCache' = ClearedMindCache(mindCache)
  /\ epoch' = epoch + 1
  /\ loadMindCalled' = [n \in Names |-> 0]
  /\ pcall' = NoCall
  /\ UNCHANGED <<config, globals, disk, tasks>>

\* filesystem.ts 51-78: what loadMind(name) returns and where it leaves the
\* index
FsLoadMind(name) ==
  IF name \in DOMAIN mindDirs
  THEN [value |-> LoadOutcome(ParsedMind(disk[mindDirs[name]])).value,
        mindDirs |-> mindDirs]
  ELSE IF ~FileExists(disk[name])
  THEN [value |-> Undefined, mindDirs |-> mindDirs]
  ELSE LET r == ParsedMind(disk[name])
       IN [value |-> LoadOutcome(r).value,
           mindDirs |-> IF r.ok THEN MapSet(mindDirs, name, name) ELSE mindDirs]

\* registry.ts 249-264 over filesystem.ts 51-78
FsRegistryLoadMind(name) ==
  /\ NoneInFlight
  /\ IF CacheHit(mindCache, name)
     THEN /\ ret' = [op |-> "loadMind", name |-> name, status |-> "resolved",
                     value |-> mindCache[name], asked |-> FALSE]
          /\ UNCHANGED <<mindCache, mindDirs, loadMindCalled>>
     ELSE IF Owner(name) = NoProvider
     THEN /\ ret' = [op |-> "loadMind", name |-> name, status |-> "resolved",
                     value |-> Undefined, asked |-> FALSE]
          /\ UNCHANGED <<mindCache, mindDirs, loadMindCalled>>
     ELSE LET loaded == FsLoadMind(name)
          IN /\ LoadsMade(Names) < MaxLoads
             /\ loadMindCalled' = [loadMindCalled EXCEPT ![name] = @ + 1]
             /\ mindDirs' = loaded.mindDirs
             /\ mindCache' = IF CachesResult(loaded.value)
                             THEN MapSet(mindCache, name, loaded.value)
                             ELSE mindCache
             /\ ret' = [op |-> "loadMind", name |-> name, status |-> "resolved",
                        value |-> loaded.value, asked |-> TRUE]
  /\ pcall' = NoCall
  /\ UNCHANGED <<config, globals, disk, metadataCache, mindProviderMap, tasks,
                 epoch, lastInit>>

InitFSRegistry ==
  /\ callers = "sequential"
  /\ Constructed
  /\ Len(providers) = 1
  /\ ModuleLoaded
  /\ disk \in [Dirs -> DescribedFiles]
  /\ baseDir \in BaseDirs
  /\ ProviderConstructed
  /\ input = NoInput

NextFSRegistry ==
  \/ \E order \in DirOrders : FsRegistryInit(order)
  \/ \E name \in Names : FsRegistryLoadMind(name)
  \/ \E name \in Names : GetMetadata(name)

SpecFSRegistry == InitFSRegistry /\ [][NextFSRegistry]_vars

\* C39: after init() over a FileSystemProvider whose directory does not
\* change, loadMind(N) of a registered name N returns a Mind whose metadata
\* (name and description) is getMetadata(N), under both strategies, also
\* when two directories declare the same name.
C39_LoadedIsDescribed ==
  (ret.op = "loadMind" /\ ret.name \in DOMAIN mindProviderMap) =>
    /\ ret.value # Undefined
    /\ ret.value.metadata = getMetadata(ret.name)

\* ---- FileSystemProvider: every operation, over one directory index -----
\* One FileSystemProvider called one call at a time, with all five of its
\* operations, over a directory whose MIND.md files other programs delete.
IndexCallPaths == {<<"md", ".", "sh">>, TraversalExample}

NextFSIndex ==
  \/ \E d \in Dirs : DiskChange(d, NoFile)
  \/ \E s \in Slots : FsDiscoverStart(s)
  \/ \E s \in Slots, d \in Dirs : FsDiscoverScan(s, d)
  \/ \E s \in Slots : FsDiscoverRead(s)
  \/ \E s \in Slots : FsDiscoverReturn(s)
  \/ \E s \in Slots, name \in Names : FsLoadMindStart(s, name)
  \/ \E s \in Slots : FsLoadMindExists(s)
  \/ \E s \in Slots : FsLoadMindRead(s)
  \/ \E s \in Slots, name \in Names : FsHasMindStart(s, name)
  \/ \E s \in Slots : FsHasMindExists(s)
  \/ \E s \in Slots, mindName \in Names, path \in IndexCallPaths :
       FsReadResourceStart(s, mindName, path)
  \/ \E s \in Slots, exists \in BOOLEAN : FsReadResourceExists(s, exists)
  \/ \E s \in Slots, out \in FileTextOutcomes : FsReadResourceText(s, out)
  \/ \E s \in Slots, mindName \in Names, scriptPath \in IndexCallPaths, args \in {NoArgs},
          present \in BOOLEAN :
       FsExecuteScriptStart(s, mindName, scriptPath, args, present)
  \/ \E s \in Slots, exists \in BOOLEAN, started \in BOOLEAN :
       FsExecuteScriptExists(s, exists, started)
  \/ \E s \in Slots, out \in ProcessOutcomes : FsExecuteScriptExit(s, out)

SpecFSIndex == InitFS /\ [][NextFSIndex]_vars

\* The step is the return of a call of operation op.
Returns(op) == \E s \in Slots : tasks[s].op = op /\ tasks'[s] = Idle

\* filesystem.ts 62-65: the step is the return of a loadMind that took the
\* fallback path and parsed the document.
FallbackLoaded ==
  /\ Returns("fs.loadMind")
  /\ ret'.path = "fallback"
  /\ ret'.value # Undefined

C40_Step ==
  /\ \A n \in DOMAIN mindDirs : n \in DOMAIN mindDirs'
  /\ FallbackLoaded => mindDirs' = MapSet(mindDirs, ret'.name, ret'.name)
  /\ mindDirs' # mindDirs =>
       \/ FallbackLoaded
       \/ \E s \in Slots : tasks[s].op = "fs.discover"

\* C40: the directory index changes only in discover() and in a successful
\* fallback loadMind, which records the requested name with the fallback
\* directory; a failed fallback load, hasMind, readResource and
\* executeScript leave it unchanged, and no step removes an entry.
C40_IndexOnlyGrows == [][C40_Step]_vars

C40_Witness ==
  /\ ret.op = "fs.loadMind"
  /\ ret.path = "fallback"
  /\ ret.value # Undefined
  /\ ret.value.metadata.name # ret.name
  /\ ret.name \in DOMAIN mindDirs
  /\ mindDirs[ret.name] = ret.name
  /\ ret.value.metadata.name \notin DOMAIN mindDirs

====
